---- MODULE Spec2Model ----
(***************************************************************************)
(* Model of the weekly literature updater                                  *)
(* (scripts/update_literature_weekly.py) and, where a claim names it, of   *)
(* the monthly updater (scripts/update_literature_monthly.py).             *)
(*                                                                         *)
(* Texts are TLA+ strings; TLC evaluates Len, \o and SubSeq on them, so    *)
(* term matching is the case-insensitive substring containment of the      *)
(* code, not a token comparison.                                           *)
(***************************************************************************)
EXTENDS Integers, Sequences, FiniteSets, TLC

(***************************************************************************)
(* Settings                                                                *)
(***************************************************************************)
MAX_HISTORY == 120

RETMAX == 80

SCORE_TOP_N == 30

\* the rejection sentinel returned by score_relevance and the initial best score
REJECTED == -999

\* the score of a text without any required PT term
NO_SIGNAL == -200

\* the minimum score of a winner that is recorded and rendered
ACCEPT == 18

PT_REQUIRED_TERMS ==
    << "physical therapy", "physiotherapy", "physical therapist",
       "rehabilitation", "exercise therapy", "therapeutic exercise",
       "gait training", "balance training", "strength training" >>

NON_PT_RED_FLAGS ==
    << "thrombectomy", "catheter", "endovascular", "stent",
       "hospice", "cost analysis", "disposition",
       "audiology", "hearing", "cochlear",
       "radiology", "chemotherapy", "dialysis" >>

STUDY_DESIGN_TERMS ==
    << "randomized", "trial", "systematic review", "meta-analysis", "guideline", "cohort" >>

SECTIONS ==
    << [ name |-> "Orthopedics",
         preferred_journals |-> << "J Orthop Sports Phys Ther", "Phys Ther", "Arch Phys Med Rehabil" >>,
         must_terms |-> << "rehabilitation", "exercise", "physical therapy", "physiotherapy" >>,
         boost_terms |-> << "low back pain", "lumbar", "manual therapy",
                            "shoulder", "rotator cuff",
                            "knee osteoarthritis", "osteoarthritis", "hip",
                            "postoperative", "post-op", "total knee", "total hip",
                            "outpatient", "therapeutic exercise" >>,
         ban_terms |-> << "thrombectomy", "endovascular", "catheter", "audiology",
                          "hearing", "hospice", "cost", "disposition" >> ],
       [ name |-> "Sports",
         preferred_journals |-> << "Am J Sports Med", "J Orthop Sports Phys Ther", "Br J Sports Med", "Sports Health" >>,
         must_terms |-> << "rehabilitation", "return to sport", "athlete", "acl", "tendinopathy", "running" >>,
         boost_terms |-> << "reinjury", "plyometric", "hop test", "landing",
                            "eccentric", "achilles", "patellar",
                            "load management", "strength", "performance" >>,
         ban_terms |-> << "thrombectomy", "endovascular", "catheter", "hospice",
                          "cost", "disposition", "audiology", "hearing" >> ],
       [ name |-> "Geriatrics",
         preferred_journals |-> << "J Geriatr Phys Ther", "Phys Ther", "Arch Phys Med Rehabil" >>,
         must_terms |-> << "older", "falls", "balance", "frailty", "sarcopenia", "hip fracture" >>,
         boost_terms |-> << "exercise", "strength", "multicomponent", "home-based",
                            "gait speed", "timed up and go", "tug", "sit-to-stand",
                            "hip fracture rehabilitation" >>,
         ban_terms |-> << "audiology", "hearing", "cochlear", "thrombectomy",
                          "endovascular", "catheter", "hospice", "cost" >> ],
       [ name |-> "Neurological",
         preferred_journals |-> << "J Neurol Phys Ther", "Neurorehabil Neural Repair", "Phys Ther", "Arch Phys Med Rehabil" >>,
         must_terms |-> << "stroke", "parkinson", "vestibular", "gait", "walking", "balance", "rehabilitation" >>,
         boost_terms |-> << "task-specific", "gait training", "treadmill",
                            "cueing", "vestibular rehabilitation", "habituation" >>,
         ban_terms |-> << "thrombectomy", "endovascular", "catheter", "hospice",
                          "cost", "disposition", "audiology", "hearing" >> ] >>

\* SECTIONS of the monthly script
MONTHLY_SECTIONS ==
    <<
       [ name |-> "Orthopedics",
         preferred_journals |-> << "J Orthop Sports Phys Ther", "JOSPT", "Phys Ther",
                                   "JOSPT Open" >>,
         must_terms |-> << "physical therapy", "physiotherapy", "rehabilitation", "exercise" >>,
         boost_terms |-> << "outpatient", "manual therapy", "exercise therapy",
                            "low back pain", "lumbar", "rotator cuff", "shoulder",
                            "osteoarthritis", "knee", "hip", "postoperative", "post-op",
                            "total knee", "total hip" >>,
         ban_terms |-> << "thrombectomy", "endovascular", "catheter", "audiology", "hearing",
                          "hospice", "cost", "disposition" >> ],
       [ name |-> "Sports",
         preferred_journals |-> << "Am J Sports Med", "J Orthop Sports Phys Ther",
                                   "Br J Sports Med" >>,
         must_terms |-> << "sports", "athlete", "return to sport", "acl", "tendinopathy",
                           "running" >>,
         boost_terms |-> << "rehabilitation", "reinjury", "plyometric", "hop test", "graft",
                            "eccentric", "achilles", "patellar", "load management", "strength" >>,
         ban_terms |-> << "thrombectomy", "endovascular", "catheter", "hospice", "cost",
                          "disposition", "stroke unit" >> ],
       [ name |-> "Geriatrics",
         preferred_journals |-> << "Phys Ther", "J Geriatr Phys Ther",
                                   "J Orthop Sports Phys Ther" >>,
         must_terms |-> << "older", "falls", "balance", "frailty", "sarcopenia", "hip fracture" >>,
         boost_terms |-> << "exercise", "strength", "multicomponent", "home-based",
                            "community", "gait speed", "timed up and go", "tug",
                            "sit-to-stand" >>,
         ban_terms |-> << "audiology", "hearing", "cochlear", "thrombectomy", "endovascular",
                          "catheter", "hospice" >> ],
       [ name |-> "Neurological",
         preferred_journals |-> << "J Neurol Phys Ther", "Neurorehabil Neural Repair",
                                   "Phys Ther" >>,
         must_terms |-> << "stroke", "parkinson", "vestibular", "gait", "walking", "balance" >>,
         boost_terms |-> << "task-specific", "gait training", "treadmill", "cueing",
                            "vestibular rehabilitation", "habituation", "vorr" >>,
         ban_terms |-> << "thrombectomy", "endovascular", "catheter", "hospice", "cost",
                          "disposition" >> ] >>

SectionIdx == 1..Len(SECTIONS)

SectionNames == { SECTIONS[i].name : i \in SectionIdx }

(***************************************************************************)
(* Strings: str.lower() and the substring test `w in t`                    *)
(***************************************************************************)
\* the characters str.lower() changes, each with its lowercase form
LowerMap ==
    "A" :> "a" @@ "B" :> "b" @@ "C" :> "c" @@ "D" :> "d" @@ "E" :> "e" @@ "F" :> "f" @@
    "G" :> "g" @@ "H" :> "h" @@ "I" :> "i" @@ "J" :> "j" @@ "K" :> "k" @@ "L" :> "l" @@
    "M" :> "m" @@ "N" :> "n" @@ "O" :> "o" @@ "P" :> "p" @@ "Q" :> "q" @@ "R" :> "r" @@
    "S" :> "s" @@ "T" :> "t" @@ "U" :> "u" @@ "V" :> "v" @@ "W" :> "w" @@ "X" :> "x" @@
    "Y" :> "y" @@ "Z" :> "z"

LowerCh(c) == IF c \in DOMAIN LowerMap THEN LowerMap[c] ELSE c

RECURSIVE Lower(_)
Lower(s) ==
    IF Len(s) = 0 THEN ""
    ELSE IF Len(s) = 1 THEN LowerCh(s)
    ELSE LET h == Len(s) \div 2
         IN  Lower(SubSeq(s, 1, h)) \o Lower(SubSeq(s, h + 1, Len(s)))

\* Python's `w in t` for strings
Contains(w, t) ==
    \E i \in 1..(Len(t) - Len(w) + 1) : SubSeq(t, i, i + Len(w) - 1) = w

(***************************************************************************)
(* score_relevance (weekly)                                                *)
(***************************************************************************)
\* any(term in t for term in terms), the terms taken as written
AnyIn(terms, t) == \E i \in 1..Len(terms) : Contains(terms[i], t)

\* Accumulate with the loop replaced by one any(): pts are added once
Accumulate_Once(terms, t, pts, i) ==
    IF \E n \in i..Len(terms) : Contains(Lower(terms[n]), t) THEN pts ELSE 0

\* for w in terms: if w.lower() in t: score += pts
RECURSIVE Accumulate(_, _, _, _)
Accumulate(terms, t, pts, i) ==
    IF i > Len(terms) THEN 0
    ELSE (IF Contains(Lower(terms[i]), t) THEN pts ELSE 0) + Accumulate(terms, t, pts, i + 1)

\* score_relevance without the category bans
score_relevance_NoCategoryBans(blob, sec, journal) ==
    LET t == Lower(blob)
        j == Lower(journal)
    IN  IF AnyIn(NON_PT_RED_FLAGS, t) THEN REJECTED
        ELSE IF ~AnyIn(PT_REQUIRED_TERMS, t) THEN NO_SIGNAL
        ELSE   Accumulate(sec.preferred_journals, j, 25, 1)
             + Accumulate(sec.must_terms, t, 8, 1)
             + Accumulate(sec.boost_terms, t, 3, 1)
             + (IF AnyIn(STUDY_DESIGN_TERMS, t) THEN 4 ELSE 0)

\* score_relevance without the check for a required PT term
score_relevance_NoRequiredCheck(blob, sec, journal) ==
    LET t == Lower(blob)
        j == Lower(journal)
    IN  IF AnyIn(NON_PT_RED_FLAGS, t) THEN REJECTED
        ELSE IF \E i \in 1..Len(sec.ban_terms) : Contains(Lower(sec.ban_terms[i]), t) THEN REJECTED
        ELSE   Accumulate(sec.preferred_journals, j, 25, 1)
             + Accumulate(sec.must_terms, t, 8, 1)
             + Accumulate(sec.boost_terms, t, 3, 1)
             + (IF AnyIn(STUDY_DESIGN_TERMS, t) THEN 4 ELSE 0)

\* score_relevance with `score = 3` for `score += 3` in the boost loop
score_relevance_BoostAssigns(blob, sec, journal) ==
    LET t == Lower(blob)
        j == Lower(journal)
    IN  IF AnyIn(NON_PT_RED_FLAGS, t) THEN REJECTED
        ELSE IF ~AnyIn(PT_REQUIRED_TERMS, t) THEN NO_SIGNAL
        ELSE IF \E i \in 1..Len(sec.ban_terms) : Contains(Lower(sec.ban_terms[i]), t) THEN REJECTED
        ELSE   (IF Accumulate(sec.boost_terms, t, 3, 1) > 0 THEN 3
                ELSE   Accumulate(sec.preferred_journals, j, 25, 1)
                     + Accumulate(sec.must_terms, t, 8, 1))
             + (IF AnyIn(STUDY_DESIGN_TERMS, t) THEN 4 ELSE 0)

score_relevance(blob, sec, journal) ==
    LET t == Lower(blob)
        j == Lower(journal)
    IN  IF AnyIn(NON_PT_RED_FLAGS, t) THEN REJECTED
        ELSE IF ~AnyIn(PT_REQUIRED_TERMS, t) THEN NO_SIGNAL
        ELSE IF \E i \in 1..Len(sec.ban_terms) : Contains(Lower(sec.ban_terms[i]), t) THEN REJECTED
        ELSE   Accumulate(sec.preferred_journals, j, 25, 1)
             + Accumulate(sec.must_terms, t, 8, 1)
             + Accumulate(sec.boost_terms, t, 3, 1)
             + (IF AnyIn(STUDY_DESIGN_TERMS, t) THEN 4 ELSE 0)

(***************************************************************************)
(* score_relevance (monthly)                                               *)
(***************************************************************************)
score_relevance_monthly(blob, sec, journal) ==
    LET t == Lower(blob)
        j == Lower(journal)
    IN  IF \E i \in 1..Len(sec.ban_terms) : Contains(Lower(sec.ban_terms[i]), t) THEN REJECTED
        ELSE   Accumulate(sec.preferred_journals, j, 25, 1)
             + Accumulate(sec.must_terms, t, 8, 1)
             + Accumulate(sec.boost_terms, t, 3, 1)
             + (IF AnyIn(STUDY_DESIGN_TERMS, t) THEN 4 ELSE 0)

\* the scorer and the category table of a script
ScoreBy(script, blob, i, journal) ==
    IF script = "weekly" THEN score_relevance(blob, SECTIONS[i], journal)
    ELSE score_relevance_monthly(blob, MONTHLY_SECTIONS[i], journal)

(***************************************************************************)
(* The literature source: what esummary and efetch hold for an identifier. *)
(* Identifiers outside Library stand for further articles of the source,   *)
(* all with the content of FillerArticle.                                  *)
(***************************************************************************)
Library ==
    [ p \in {"101", "103", "104", "105", "106"} |->
        CASE p = "101" -> [ title |-> "Exercise therapy for chronic low back pain",
                            source |-> "Phys Ther",
                            abstract |-> "OBJECTIVE: To compare exercise therapy with usual care. RESULTS: Pain improved (p<0.05). CONCLUSION: Exercise therapy helps." ]
          [] p = "103" -> [ title |-> "Physiotherapy Exercise after ACL reconstruction in athletes",
                            source |-> "Lancet",
                            abstract |-> "" ]
          [] p = "104" -> [ title |-> "Balance and falls in older adults",
                            source |-> "J Geriatr Phys Ther",
                            abstract |-> "A cohort of older adults was followed for 12 weeks." ]
          [] p = "105" -> [ title |-> "Hearing loss and falls in older adults",
                            source |-> "Phys Ther",
                            abstract |-> "Hospice referral was recorded." ]
          [] p = "106" -> [ title |-> "Strength training and physical therapy for shoulder pain",
                            source |-> "J Orthop Sports Phys Ther",
                            abstract |-> "Eccentric strength work twice per week." ] ]

FillerArticle ==
    [ title |-> "Community walking groups", source |-> "Lancet", abstract |-> "" ]

Article(p) == IF p \in DOMAIN Library THEN Library[p] ELSE FillerArticle

\* the i-th further identifier of the source
Filler(i) == ToString(9000 + i)

Fillers(n) == [ i \in 1..n |-> Filler(i) ]

(***************************************************************************)
(* Bounds of the model                                                     *)
(***************************************************************************)
\* longest identifier list drawn from a category's pool of Library articles
MaxIds == 2

\* longest candidate sequence of the scan on its own
MaxCands == 3

\* most phrases appended to the abstract of the scored text
MaxPhrases == 1

(***************************************************************************)
(* State                                                                   *)
(***************************************************************************)
VARIABLES
    historyFile,            \* literature_history.json: [exists, valid, data] and how often
                            \* the run has opened it to read and to write
    literature,             \* literature.html: [markers, fragment]
    pc,                     \* the statement of main() the run is at
    k,                      \* index in SECTIONS of the category of the loop body
    history,                \* main's history dict
    loaded,                 \* the dict load_history returned at the start of the run
    chosen,                 \* main's chosen dict
    ids,                    \* main's ids (the last esearch result)
    candidate_pmids,        \* main's candidate_pmids (the last scored sequence)
    prev_pmids_by_section,  \* main's prev_pmids_by_section
    cards,                  \* main's cards
    failure,                \* the exception that ended the run, "" when none
    scores,                 \* what score_relevance returns for the articles of the source
    xmlOk,                  \* whether the XML that efetch returns in this run parses
    scan,                   \* the best-candidate scan on its own: [cands, best]
    probe,                  \* score_relevance on its own: [sec, title, journal, abstract, ...]
    digest,                 \* structured_summary and the extractors on their own:
                            \* [section_name, abstract, out, hints, lines, stats, dosage]
    source,                 \* what esearch returns per category, where runs share it
    parked,                 \* the variables of main() of a second run while the first
                            \* one is executing, [pc |-> "none"] without a second run
    runs                    \* the number of runs started

runVars == << historyFile, literature, pc, k, history, loaded, chosen, ids,
              candidate_pmids, prev_pmids_by_section, cards, failure, scores, xmlOk,
              source, parked, runs >>

vars == << historyFile, literature, pc, k, history, loaded, chosen, ids,
           candidate_pmids, prev_pmids_by_section, cards, failure, scores, xmlOk, scan,
           probe, digest, source, parked, runs >>

(***************************************************************************)
(* Helpers                                                                 *)
(***************************************************************************)
Min(a, b) == IF a < b THEN a ELSE b

\* s[:n]
Take(s, n) == SubSeq(s, 1, Min(n, Len(s)))

\* s[a:b] for 0 <= a <= b
Slice(s, a, b) == SubSeq(s, a + 1, Min(b, Len(s)))

Range(s) == { s[i] : i \in 1..Len(s) }

\* the duplicate-free sequences over S of length at most n
IdLists(S, n) ==
    UNION { { s \in [1..m -> S] : \A i, j \in 1..m : i # j => s[i] # s[j] } : m \in 0..n }

EmptyHistory == [ n \in SectionNames |-> << >> ]

EmptyMeta == [ title |-> "", source |-> "" ]

\* best = {"pmid": "", "meta": {}, "abstract": "", "score": -999}
BestInit == [ pmid |-> "", meta |-> EmptyMeta, abstract |-> "", score |-> REJECTED ]

(***************************************************************************)
(* load_history / save_history                                             *)
(***************************************************************************)
load_history(file) ==
    IF ~file.exists THEN EmptyHistory
    ELSE IF ~file.valid THEN EmptyHistory
    ELSE [ n \in SectionNames \cup DOMAIN file.data |->
             IF n \in DOMAIN file.data THEN file.data[n] ELSE << >> ]

\* save_history keeping the stored identifiers the dict does not have
save_history_Merged(file, hist) ==
    [ exists |-> TRUE, valid |-> TRUE,
      data |-> [ n \in SectionNames |->
                   hist[n] \o SelectSeq(load_history(file)[n],
                                        LAMBDA p : p \notin Range(hist[n])) ],
      reads |-> file.reads, writes |-> file.writes + 1 ]

\* the file after open(HISTORY_FILE, "w") and json.dump
save_history(file, hist) ==
    [ exists |-> TRUE, valid |-> TRUE, data |-> hist,
      reads |-> file.reads, writes |-> file.writes + 1 ]

\* the file after load_history: it is opened to read when it exists
Opened(file) == IF file.exists THEN [ file EXCEPT !.reads = file.reads + 1 ] ELSE file

(***************************************************************************)
(* The selection of main's loop body                                       *)
(***************************************************************************)
\* Candidates without the history filter
Candidates_Unfiltered(idlist, hist) == Take(idlist, SCORE_TOP_N)

\* Candidates with the newest entry of the history left out of used
Candidates_NewestNotUsed(idlist, hist) ==
    LET used == Range(SubSeq(hist, 2, Len(hist)))
        filtered == SelectSeq(idlist, LAMBDA p : p \notin used)
    IN  IF filtered # << >> THEN Take(filtered, SCORE_TOP_N) ELSE Take(idlist, SCORE_TOP_N)

\* Candidates with the list cut to SCORE_TOP_N before the history is filtered out
Candidates_TruncatesFirst(idlist, hist) ==
    LET used == Range(hist)
        filtered == SelectSeq(Take(idlist, SCORE_TOP_N), LAMBDA p : p \notin used)
    IN  IF filtered # << >> THEN filtered ELSE Take(idlist, SCORE_TOP_N)

\* used / filtered / candidate_pmids
Candidates(idlist, hist) ==
    LET used == Range(hist)
        filtered == SelectSeq(idlist, LAMBDA p : p \notin used)
    IN  IF filtered # << >> THEN Take(filtered, SCORE_TOP_N) ELSE Take(idlist, SCORE_TOP_N)

\* blob = f"{title} {journal} {abstract}"
Blob(title, journal, abstract) == title \o " " \o journal \o " " \o abstract

\* the score of every article of the source: by script, by category, by article
\* ("" for the further articles) and by whether efetch gave abstracts
ArticleScores ==
    [ script \in {"weekly", "monthly"} |->
        [ i \in SectionIdx |->
            [ p \in DOMAIN Library \cup {""} |->
                [ abstracts \in BOOLEAN |->
                    LET a == Article(p)
                        abstract == IF abstracts THEN a.abstract ELSE ""
                    IN  ScoreBy(script, Blob(a.title, a.source, abstract), i, a.source) ] ] ] ]

\* title, journal and abstract of one candidate of category i and its score
Scored(script, pmid, i, abstracts) ==
    LET a == Article(pmid)
    IN  [ pmid |-> pmid,
          meta |-> [ title |-> a.title, source |-> a.source ],
          abstract |-> IF abstracts THEN a.abstract ELSE "",
          score |-> scores[script][i][IF pmid \in DOMAIN Library THEN pmid ELSE ""][abstracts] ]

\* Better with >= for >
Better_OrEqual(cand, best) == cand.score >= best.score

\* if s > best["score"]: best = {...}
Better(cand, best) == cand.score > best.score

\* for pmid in candidate_pmids: ... , from candidate i on
RECURSIVE ScanFrom(_, _, _)
ScanFrom(cands, i, best) ==
    IF i > Len(cands) THEN best
    ELSE ScanFrom(cands, i + 1, IF Better(cands[i], best) THEN cands[i] ELSE best)

ScanBest(cands) == ScanFrom(cands, 1, BestInit)

\* Accepted without the threshold
Accepted_AnyScore(best) == best.pmid # ""

\* if best["pmid"] and best["score"] >= 18
Accepted(best) == best.pmid # "" /\ best.score >= ACCEPT

\* Record with append for insert(0, ...)
Record_Append(list, pmid) == Take(list \o << pmid >>, MAX_HISTORY)

\* Record without the truncation
Record_NoTruncate(list, pmid) == << pmid >> \o list

\* history[name].insert(0, best["pmid"]); history[name] = history[name][:MAX_HISTORY]
Record(list, pmid) == Take(<< pmid >> \o list, MAX_HISTORY)

(***************************************************************************)
(* The environment of a run: the store file, the target document and the   *)
(* results the source may return                                           *)
(***************************************************************************)
\* the Library articles each category's topic_query can return
Pool ==
    [ Orthopedics |-> {"101", "103", "104", "106"},
      Sports |-> {"103", "106"},
      Geriatrics |-> {"101", "104", "106"},
      Neurological |-> {"101", "105"} ]

\* more results than are scored: SCORE_TOP_N further articles, then "101"
LongResult == Fillers(SCORE_TOP_N) \o << "101" >>

\* the idlist values esearch may return for a category (at most retmax identifiers)
Results(name) ==
    { r \in IdLists(Pool[name], MaxIds)
             \cup (IF name = "Neurological" THEN { LongResult } ELSE { }) :
        Len(r) <= RETMAX }

StoreData ==
    { << >>,
      [ Orthopedics |-> << "106" >> ],
      [ Orthopedics |-> << "106", "101" >>,
        Sports |-> << "106" >>,
        Geriatrics |-> << "101", "106", "104" >>,
        Neurological |-> << "9001" >> ],
      [ Orthopedics |-> Fillers(MAX_HISTORY),
        Sports |-> Fillers(MAX_HISTORY + 1),
        Geriatrics |-> Fillers(MAX_HISTORY - 1),
        Neurological |-> << >> ] }

Stores ==
    { [ exists |-> FALSE, valid |-> FALSE, data |-> << >>, reads |-> 0, writes |-> 0 ],
      [ exists |-> TRUE, valid |-> FALSE, data |-> << >>, reads |-> 0, writes |-> 0 ] }
    \cup { [ exists |-> TRUE, valid |-> TRUE, data |-> d, reads |-> 0, writes |-> 0 ] :
             d \in StoreData }

\* the content between the markers before the run
PreviousFragment == << [ kind |-> "previous" ] >>

\* no list is shared between runs; no second run
NoSource == << >>

NoRun == [ pc |-> "none" ]

IdleScan ==
    [ script |-> "", sec |-> 0, abstracts |-> FALSE, pmids |-> << >>,
      best |-> BestInit, done |-> FALSE ]

IdleProbe ==
    [ script |-> "", sec |-> 0, title |-> "", journal |-> "", abstract |-> "",
      n |-> 0, score |-> 0, prev |-> 0, added |-> "" ]

IdleDigest == [ section_name |-> "", abstract |-> << >>, n |-> 0 ]

(***************************************************************************)
(* main(), statement by statement                                          *)
(***************************************************************************)
Init ==
    /\ scores = ArticleScores
    /\ xmlOk \in BOOLEAN
    /\ historyFile \in Stores
    /\ literature \in { [ markers |-> m, fragment |-> PreviousFragment ] : m \in BOOLEAN }
    /\ pc = "load"
    /\ k = 1
    /\ history = EmptyHistory
    /\ loaded = EmptyHistory
    /\ chosen = << >>
    /\ ids = << >>
    /\ candidate_pmids = << >>
    /\ prev_pmids_by_section = << >>
    /\ cards = << >>
    /\ failure = ""
    /\ scan = IdleScan
    /\ probe = IdleProbe
    /\ digest = IdleDigest
    /\ source = NoSource
    /\ parked = NoRun
    /\ runs = 1

\* Load with the exception of load_history not caught
Load_Raises ==
    /\ pc = "load"
    /\ IF historyFile.exists /\ ~historyFile.valid
       THEN /\ pc' = "aborted"
            /\ failure' = "history"
            /\ historyFile' = Opened(historyFile)
            /\ UNCHANGED << history, loaded >>
       ELSE /\ history' = load_history(historyFile)
            /\ loaded' = load_history(historyFile)
            /\ historyFile' = IF ~historyFile.exists
                              THEN save_history(historyFile, EmptyHistory)
                              ELSE Opened(historyFile)
            /\ pc' = "search"
            /\ UNCHANGED failure
    /\ UNCHANGED << literature, k, chosen, ids, candidate_pmids, prev_pmids_by_section,
                    cards, scores, xmlOk, scan,
                    probe, digest, source, parked, runs >>

\* history = load_history(); a missing file is created with empty lists
Load ==
    /\ pc = "load"
    /\ history' = load_history(historyFile)
    /\ loaded' = load_history(historyFile)
    /\ historyFile' = IF ~historyFile.exists
                      THEN save_history(historyFile, EmptyHistory)
                      ELSE Opened(historyFile)
    /\ pc' = "search"
    /\ UNCHANGED << literature, k, chosen, ids, candidate_pmids, prev_pmids_by_section,
                    cards, failure, scores, xmlOk, scan,
                    probe, digest, source, parked, runs >>

AfterCategory == IF k = Len(SECTIONS) THEN "prev" ELSE "search"

\* Search raising on an empty result
Search_AbortsOnEmpty ==
    /\ pc = "search"
    /\ \E r \in Results(SECTIONS[k].name) :
         /\ ids' = r
         /\ IF r = << >>
            THEN /\ pc' = "aborted"
                 /\ failure' = "no_candidates"
            ELSE /\ pc' = "select"
                 /\ UNCHANGED failure
    /\ UNCHANGED << historyFile, literature, k, history, loaded, chosen, candidate_pmids,
                    prev_pmids_by_section, cards, scores, xmlOk, scan,
                    probe, digest, source, parked, runs >>

\* ids = esearch(...); if not ids: chosen[name] = {...}; continue
Search ==
    /\ pc = "search"
    /\ \E r \in Results(SECTIONS[k].name) :
         /\ ids' = r
         /\ IF r = << >>
            THEN /\ chosen' = (SECTIONS[k].name :> BestInit) @@ chosen
                 /\ k' = k + 1
                 /\ pc' = AfterCategory
            ELSE /\ pc' = "select"
                 /\ UNCHANGED << chosen, k >>
    /\ UNCHANGED << historyFile, literature, history, loaded, candidate_pmids,
                    prev_pmids_by_section, cards, failure, scores, xmlOk, scan,
                    probe, digest, source, parked, runs >>

\* Select with the unfiltered list scored when no filtered candidate is accepted
Select_RetriesUnfiltered ==
    /\ pc = "select"
    /\ LET name == SECTIONS[k].name
           cp == Candidates(ids, history[name])
           first == ScanBest([ i \in 1..Len(cp) |-> Scored("weekly", cp[i], k, xmlOk) ])
           all == Take(ids, SCORE_TOP_N)
           best == IF Accepted(first) THEN first
                   ELSE ScanBest([ i \in 1..Len(all) |-> Scored("weekly", all[i], k, xmlOk) ])
       IN  /\ candidate_pmids' = cp
           /\ chosen' = (name :> best) @@ chosen
           /\ history' = IF Accepted(best)
                         THEN [ history EXCEPT ![name] = Record(history[name], best.pmid) ]
                         ELSE history
    /\ k' = k + 1
    /\ pc' = AfterCategory
    /\ UNCHANGED << historyFile, literature, loaded, ids, prev_pmids_by_section,
                    cards, failure, scores, xmlOk, scan,
                    probe, digest, source, parked, runs >>

\* Select with the history saved as soon as a winner is recorded
Select_SavesAtOnce ==
    /\ pc = "select"
    /\ LET name == SECTIONS[k].name
           cp == Candidates(ids, history[name])
           best == ScanBest([ i \in 1..Len(cp) |-> Scored("weekly", cp[i], k, xmlOk) ])
           hist == IF Accepted(best)
                   THEN [ history EXCEPT ![name] = Record(history[name], best.pmid) ]
                   ELSE history
       IN  /\ candidate_pmids' = cp
           /\ chosen' = (name :> best) @@ chosen
           /\ history' = hist
           /\ historyFile' = IF Accepted(best) THEN save_history(historyFile, hist)
                             ELSE historyFile
    /\ k' = k + 1
    /\ pc' = AfterCategory
    /\ UNCHANGED << literature, loaded, ids, prev_pmids_by_section,
                    cards, failure, scores, xmlOk, scan,
                    probe, digest, source, parked, runs >>

\* the rest of the loop body; efetch_abstracts returns {} when the XML does not
\* parse
Select ==
    /\ pc = "select"
    /\ LET name == SECTIONS[k].name
           cp == Candidates(ids, history[name])
           best == ScanBest([ i \in 1..Len(cp) |-> Scored("weekly", cp[i], k, xmlOk) ])
       IN  /\ candidate_pmids' = cp
           /\ chosen' = (name :> best) @@ chosen
           /\ history' = IF Accepted(best)
                         THEN [ history EXCEPT ![name] = Record(history[name], best.pmid) ]
                         ELSE history
    /\ k' = k + 1
    /\ pc' = AfterCategory
    /\ UNCHANGED << historyFile, literature, loaded, ids, prev_pmids_by_section,
                    cards, failure, scores, xmlOk, scan,
                    probe, digest, source, parked, runs >>

\* RequestFails with the exception caught in the loop body
RequestFails_Swallowed ==
    /\ pc \in {"search", "select"}
    /\ failure' = "request"
    /\ chosen' = (SECTIONS[k].name :> BestInit) @@ chosen
    /\ k' = k + 1
    /\ pc' = AfterCategory
    /\ UNCHANGED << historyFile, literature, history, loaded, ids,
                    candidate_pmids, prev_pmids_by_section, cards, scores, xmlOk, scan,
                    probe, digest, source, parked, runs >>

\* a request of the loop (esearch, esummary_batch, efetch_abstracts) raises
RequestFails ==
    /\ pc \in {"search", "select"}
    /\ pc' = "aborted"
    /\ failure' = "request"
    /\ UNCHANGED << historyFile, literature, k, history, loaded, chosen, ids,
                    candidate_pmids, prev_pmids_by_section, cards, scores, xmlOk, scan,
                    probe, digest, source, parked, runs >>

\* PrevOf with the newest entry included
PrevOf_FromNewest(hist) == [ n \in SectionNames |-> Slice(hist[n], 0, 5) ]

\* prev = history.get(name, [])[1:6]
PrevOf(hist) == [ n \in SectionNames |-> Slice(hist[n], 1, 6) ]

\* ids, candidate_pmids and the loop index are not read after the loop
PrevFeatured ==
    /\ pc = "prev"
    /\ prev_pmids_by_section' = PrevOf(history)
    /\ pc' = "render"
    /\ ids' = << >>
    /\ candidate_pmids' = << >>
    /\ UNCHANGED << historyFile, literature, k, history, loaded, chosen,
                    cards, failure, scores, xmlOk, scan,
                    probe, digest, source, parked, runs >>

\* prev_meta_map = esummary_batch(prev_unique) raises; no request is made
\* when prev_unique is empty
PrevRequestFails ==
    /\ pc = "prev"
    /\ \E n \in SectionNames : PrevOf(history)[n] # << >>
    /\ pc' = "aborted"
    /\ failure' = "request"
    /\ UNCHANGED << historyFile, literature, k, history, loaded, chosen, ids,
                    candidate_pmids, prev_pmids_by_section, cards, scores, xmlOk, scan,
                    probe, digest, source, parked, runs >>

\* the card of one category
Card(sec, sel, prev) ==
    LET best == IF sec.name \in DOMAIN sel THEN sel[sec.name] ELSE BestInit
    IN  IF best.pmid = "" \/ best.score < ACCEPT
        THEN [ kind |-> "no_strong_match", name |-> sec.name ]
        ELSE [ kind |-> "article", name |-> sec.name, pmid |-> best.pmid,
               title |-> best.meta.title, abstract |-> best.abstract,
               prev |-> IF sec.name \in DOMAIN prev THEN prev[sec.name] ELSE << >> ]

\* Render with the history saved before the page is written
Render_SavesFirst ==
    /\ pc = "render"
    /\ cards' = << [ kind |-> "header" ], [ kind |-> "grid_open" ] >>
                \o [ i \in SectionIdx |-> Card(SECTIONS[i], chosen, prev_pmids_by_section) ]
                \o << [ kind |-> "apta" ], [ kind |-> "grid_close" ] >>
    /\ historyFile' = save_history(historyFile, history)
    /\ pc' = "inject"
    /\ UNCHANGED << literature, k, history, loaded, chosen, ids,
                    candidate_pmids, prev_pmids_by_section, failure, scores, xmlOk, scan,
                    probe, digest, source, parked, runs >>

\* cards = [header, '<div class="grid">'] ... cards.append("</div>")
Render ==
    /\ pc = "render"
    /\ cards' = << [ kind |-> "header" ], [ kind |-> "grid_open" ] >>
                \o [ i \in SectionIdx |-> Card(SECTIONS[i], chosen, prev_pmids_by_section) ]
                \o << [ kind |-> "apta" ], [ kind |-> "grid_close" ] >>
    /\ pc' = "inject"
    /\ UNCHANGED << historyFile, literature, k, history, loaded, chosen, ids,
                    candidate_pmids, prev_pmids_by_section, failure, scores, xmlOk, scan,
                    probe, digest, source, parked, runs >>

\* inject_into_literature: the document after the call
inject_into_literature(doc, new_html) ==
    LET updated == [ doc EXCEPT !.fragment = new_html ]
        changed == updated # doc
    IN  IF changed THEN updated ELSE doc

\* Inject with the file written before the markers are looked for
Inject_WritesFirst ==
    /\ pc = "inject"
    /\ literature' = inject_into_literature(literature, cards)
    /\ IF literature.markers
       THEN /\ pc' = "save"
            /\ UNCHANGED failure
       ELSE /\ pc' = "aborted"
            /\ failure' = "markers"
    /\ UNCHANGED << historyFile, k, history, loaded, chosen, ids, candidate_pmids,
                    prev_pmids_by_section, cards, scores, xmlOk, scan,
                    probe, digest, source, parked, runs >>

Inject ==
    /\ pc = "inject"
    /\ IF literature.markers
       THEN /\ literature' = inject_into_literature(literature, cards)
            /\ pc' = "save"
            /\ UNCHANGED failure
       ELSE /\ pc' = "aborted"
            /\ failure' = "markers"
            /\ UNCHANGED literature
    /\ UNCHANGED << historyFile, k, history, loaded, chosen, ids, candidate_pmids,
                    prev_pmids_by_section, cards, scores, xmlOk, scan,
                    probe, digest, source, parked, runs >>

\* save_history(history)
Save ==
    /\ pc = "save"
    /\ historyFile' = save_history(historyFile, history)
    /\ pc' = "done"
    /\ UNCHANGED << literature, k, history, loaded, chosen, ids, candidate_pmids,
                    prev_pmids_by_section, cards, failure, scores, xmlOk, scan,
                    probe, digest, source, parked, runs >>

Next ==
    \/ Load
    \/ Search
    \/ Select
    \/ RequestFails
    \/ PrevFeatured
    \/ PrevRequestFails
    \/ Render
    \/ Inject
    \/ Save

Spec == Init /\ [][Next]_vars

(***************************************************************************)
(* The best-candidate scan of main's loop body on its own: any sequence of  *)
(* Library articles, in any category of either script                      *)
(***************************************************************************)
RunIdle ==
    /\ historyFile = [ exists |-> FALSE, valid |-> FALSE, data |-> << >>, reads |-> 0, writes |-> 0 ]
    /\ literature = [ markers |-> TRUE, fragment |-> PreviousFragment ]
    /\ pc = "idle"
    /\ k = 1
    /\ history = EmptyHistory
    /\ loaded = EmptyHistory
    /\ chosen = << >>
    /\ ids = << >>
    /\ candidate_pmids = << >>
    /\ prev_pmids_by_section = << >>
    /\ cards = << >>
    /\ failure = ""
    /\ xmlOk = TRUE
    /\ source = NoSource
    /\ parked = NoRun
    /\ runs = 0

InitScan ==
    /\ scores = ArticleScores
    /\ RunIdle
    /\ probe = IdleProbe
    /\ digest = IdleDigest
    /\ scan \in { [ script |-> sc, sec |-> i, abstracts |-> b, pmids |-> c,
                     best |-> BestInit, done |-> FALSE ] :
                       sc \in {"weekly", "monthly"}, i \in SectionIdx, b \in BOOLEAN,
                       c \in IdLists(DOMAIN Library, MaxCands) }

\* best = {...}; for pmid in candidate_pmids: ...
RunScan ==
    /\ ~scan.done
    /\ scan' = [ scan EXCEPT
                   !.best = ScanBest([ i \in 1..Len(scan.pmids) |->
                                Scored(scan.script, scan.pmids[i], scan.sec, scan.abstracts) ]),
                   !.done = TRUE ]
    /\ UNCHANGED << runVars, probe, digest >>

NextScan == RunScan

SpecScan == InitScan /\ [][NextScan]_vars

(***************************************************************************)
(* score_relevance on its own: a title, a journal and an abstract put       *)
(* together from phrases, scored for a category of either script           *)
(***************************************************************************)
Titles ==
    { "Physical Therapy for knee osteoarthritis",
      "Falls in older athletes" }

Journals == { "J Orthop Sports Phys Ther", "Lancet", "" }

Phrases ==
    { "a randomized trial of rehabilitation",
      "lower cost of care",
      "after thrombectomy",
      "relationship with balance",
      "Gait Training in a stroke unit" }

SectionsOf(script) == IF script = "weekly" THEN SECTIONS ELSE MONTHLY_SECTIONS

ProbeScore(pr) == ScoreBy(pr.script, Blob(pr.title, pr.journal, pr.abstract), pr.sec, pr.journal)

\* s with one more phrase at its end
AddTo(s, phrase) == IF s = "" THEN phrase ELSE s \o " " \o phrase

InitScore ==
    /\ scores = ArticleScores
    /\ RunIdle
    /\ scan = IdleScan
    /\ digest = IdleDigest
    /\ \E sc \in {"weekly", "monthly"}, i \in SectionIdx, t \in Titles, j \in Journals :
         LET pr == [ script |-> sc, sec |-> i, title |-> t, journal |-> j, abstract |-> "",
                     n |-> 0, score |-> 0, prev |-> 0, added |-> "" ]
         IN  probe = [ pr EXCEPT !.score = ProbeScore(pr), !.prev = ProbeScore(pr) ]

\* the text gets one more phrase and is scored again
AppendPhrase ==
    /\ probe.added = ""
    /\ probe.n < MaxPhrases
    /\ \E ph \in Phrases :
         LET pr == [ probe EXCEPT !.abstract = AddTo(probe.abstract, ph), !.n = probe.n + 1 ]
         IN  probe' = [ pr EXCEPT !.score = ProbeScore(pr), !.prev = probe.score ]
    /\ UNCHANGED << runVars, scan, digest >>

\* the text gets one boost term of the category, everything else identical, and
\* is scored again
AddBoost ==
    /\ probe.added = ""
    /\ LET boost == SectionsOf(probe.script)[probe.sec].boost_terms
       IN  \E b \in 1..Len(boost) :
             LET pr == [ probe EXCEPT !.abstract = AddTo(probe.abstract, boost[b]),
                                      !.added = boost[b] ]
             IN  probe' = [ pr EXCEPT !.score = ProbeScore(pr), !.prev = probe.score ]
    /\ UNCHANGED << runVars, scan, digest >>

NextScore ==
    \/ AppendPhrase
    \/ AddBoost

SpecScore == InitScore /\ [][NextScore]_vars

(***************************************************************************)
(* Properties of the weekly run                                            *)
(***************************************************************************)
\* the category whose selection has just been made
JustSelected == pc \in {"search", "prev"} /\ k > 1 /\ ids # << >>

LastName == SECTIONS[k - 1].name

\* C1: when at least one identifier returned by the search is not in the
\* category's history, no identifier of that history is scored or selected;
\* the identifiers of the history are candidates again only when every
\* returned identifier is in the history.
C1_HistoryExcluded ==
    JustSelected =>
        LET used == Range(loaded[LastName])
        IN  /\ (Range(ids) \ used # {}) =>
                  /\ Range(candidate_pmids) \cap used = {}
                  /\ chosen[LastName].pmid \notin used
            /\ (Range(candidate_pmids) \cap used # {}) => Range(ids) \subseteq used

\* a search that returned featured and new identifiers, the featured one
\* ahead of the new one that was selected
C1_Witness ==
    /\ JustSelected
    /\ Len(ids) >= 2
    /\ ids[1] \in Range(loaded[LastName])
    /\ chosen[LastName].pmid # ""
    /\ chosen[LastName].pmid \notin Range(loaded[LastName])
    /\ chosen[LastName].score >= 18

\* C2: a category whose best candidate scores below 18, or that has no
\* candidate, gets the "No strong match" card, and its history list is saved
\* as it was loaded.
C2_BelowThresholdUntouched ==
    pc = "done" =>
        \A i \in SectionIdx :
            LET name == SECTIONS[i].name
            IN  (chosen[name].pmid = "" \/ chosen[name].score < 18) =>
                    /\ cards[2 + i] = [ kind |-> "no_strong_match", name |-> name ]
                    /\ literature.fragment[2 + i] = cards[2 + i]
                    /\ history[name] = loaded[name]
                    /\ historyFile.data[name] = loaded[name]

\* a finished run with a category whose best candidate matched something but
\* stayed below the threshold, the category having a history
C2_Witness ==
    /\ pc = "done"
    /\ \E name \in SectionNames :
         /\ chosen[name].pmid # ""
         /\ chosen[name].score >= 0
         /\ chosen[name].score < 18
         /\ loaded[name] # << >>

\* C3: the only change a run makes to a category's history is to put the
\* selected identifier at the front and cut the list to MAX_HISTORY entries;
\* nothing else is reordered, removed or changed.
C3_OnlyFrontInsert ==
    /\ pc \notin {"load", "idle"} =>
         \A name \in SectionNames :
            history[name] =
                IF name \in DOMAIN chosen /\ chosen[name].pmid # "" /\ chosen[name].score >= 18
                THEN LET l == << chosen[name].pmid >> \o loaded[name]
                     IN  SubSeq(l, 1, Min(120, Len(l)))
                ELSE loaded[name]
    /\ pc = "done" => historyFile.data = history

\* a finished run that recorded a winner ahead of at least two older entries
C3_Witness ==
    /\ pc = "done"
    /\ \E name \in SectionNames :
         /\ chosen[name].score >= 18
         /\ Len(loaded[name]) >= 2
         /\ historyFile.data[name][1] = chosen[name].pmid
         /\ historyFile.data[name][3] = loaded[name][2]

\* C9 as stated: every saved list has at most MAX_HISTORY entries, whatever
\* was loaded.
C9_AlwaysBounded ==
    pc = "done" => \A name \in SectionNames : Len(historyFile.data[name]) <= 120

\* C9: a saved list has at most MAX_HISTORY entries when the category recorded
\* a winner or its loaded list had at most MAX_HISTORY entries; a longer loaded
\* list of a category without winner is saved as it was loaded.
C9_BoundedWhenRecorded ==
    pc = "done" =>
        \A name \in SectionNames :
            \/ Len(historyFile.data[name]) <= 120
            \/ /\ Len(loaded[name]) > 120
               /\ ~(chosen[name].pmid # "" /\ chosen[name].score >= 18)
               /\ historyFile.data[name] = loaded[name]

\* a finished run whose winner went to the front of a full list
C9_Witness ==
    /\ pc = "done"
    /\ \E name \in SectionNames :
         /\ Len(loaded[name]) >= 120
         /\ chosen[name].score >= 18
         /\ Len(historyFile.data[name]) = 120
         /\ historyFile.data[name][1] = chosen[name].pmid

\* C10: a category with no search result or no candidate at the threshold does
\* not abort the run: the run stops early only on a failed request or on
\* missing markers, and the fragment a finished run writes has exactly one card
\* per category, in the configured order.
C10_PlaceholdersNeverAbort ==
    /\ pc = "aborted" =>
         \/ failure = "request"
         \/ failure = "markers" /\ ~literature.markers
    /\ pc = "done" =>
         /\ DOMAIN chosen = SectionNames
         /\ Len(literature.fragment) = Len(SECTIONS) + 4
         /\ \A i \in 1..Len(literature.fragment) :
               IF i - 2 \in SectionIdx
               THEN /\ literature.fragment[i].kind \in {"article", "no_strong_match"}
                    /\ literature.fragment[i].name = SECTIONS[i - 2].name
               ELSE literature.fragment[i].kind \notin {"article", "no_strong_match"}

\* a finished run with an empty category, a category below the threshold and a
\* category with an article
C10_Witness ==
    /\ pc = "done"
    /\ \E a, b, c \in SectionNames :
         /\ chosen[a].pmid = ""
         /\ chosen[b].pmid # "" /\ chosen[b].score < 18
         /\ chosen[c].score >= 18

(***************************************************************************)
(* Properties of the selection among scored candidates                     *)
(***************************************************************************)
ScannedScores ==
    [ i \in 1..Len(scan.pmids) |-> scores[scan.script][scan.sec][scan.pmids[i]][scan.abstracts] ]

\* C4: the winner is a candidate of maximal score and, among candidates of
\* equal score, the one that comes first in the candidate order; when no
\* candidate scores above -999 there is no winner.
C4_FirstMaximumWins ==
    scan.done =>
        LET sc == ScannedScores
            n == Len(scan.pmids)
        IN  IF \E i \in 1..n : sc[i] > -999
            THEN \E i \in 1..n :
                    /\ scan.best.pmid = scan.pmids[i]
                    /\ scan.best.score = sc[i]
                    /\ \A j \in 1..n : sc[j] <= sc[i]
                    /\ \A j \in 1..(i - 1) : sc[j] < sc[i]
            ELSE scan.best.pmid = ""

\* two candidates tie at the maximum, above the threshold, and the earlier one
\* has won
C4_Witness ==
    /\ scan.done
    /\ \E i, j \in 1..Len(scan.pmids) :
         /\ i < j
         /\ ScannedScores[i] = ScannedScores[j]
         /\ ScannedScores[i] >= 18
         /\ \A m \in 1..Len(scan.pmids) : ScannedScores[m] <= ScannedScores[i]
         /\ scan.best.pmid = scan.pmids[i]

\* the text score_relevance looks at for a candidate of the scan
ScanText(pmid) ==
    Lower(Blob(Article(pmid).title, Article(pmid).source,
               IF scan.abstracts THEN Article(pmid).abstract ELSE ""))

\* C6 as stated: a candidate with no required PT term scores exactly -200 and
\* never wins against a candidate with a required PT term that scores -200 or
\* more.
C6_NoSignalAlwaysMinus200 ==
    (scan.done /\ scan.script = "weekly") =>
        \A i \in 1..Len(scan.pmids) :
            ~AnyIn(PT_REQUIRED_TERMS, ScanText(scan.pmids[i])) =>
                /\ ScannedScores[i] = -200
                /\ scan.best.pmid = scan.pmids[i] =>
                      ~\E j \in 1..Len(scan.pmids) :
                          /\ AnyIn(PT_REQUIRED_TERMS, ScanText(scan.pmids[j]))
                          /\ ScannedScores[j] >= -200

\* C6: a candidate with no required PT term scores -200 unless its text has a
\* global red flag, when it scores -999; it never wins against a candidate
\* with a required PT term that scores -200 or more.
C6_NoSignalUnlessRedFlag ==
    (scan.done /\ scan.script = "weekly") =>
        \A i \in 1..Len(scan.pmids) :
            ~AnyIn(PT_REQUIRED_TERMS, ScanText(scan.pmids[i])) =>
                /\ ScannedScores[i] =
                      IF AnyIn(NON_PT_RED_FLAGS, ScanText(scan.pmids[i])) THEN -999 ELSE -200
                /\ scan.best.pmid = scan.pmids[i] =>
                      ~\E j \in 1..Len(scan.pmids) :
                          /\ AnyIn(PT_REQUIRED_TERMS, ScanText(scan.pmids[j]))
                          /\ ScannedScores[j] >= -200

\* the geriatrics scan met the falls article (must terms and a preferred
\* journal match, no required PT term) ahead of the candidate that won
C6_Witness ==
    /\ scan.done
    /\ scan.script = "weekly"
    /\ scan.sec = 3
    /\ Len(scan.pmids) >= 2
    /\ scan.pmids[1] = "104"
    /\ ScannedScores[1] = -200
    /\ scan.best.pmid # ""
    /\ scan.best.pmid # "104"
    /\ scan.best.score >= 0

(***************************************************************************)
(* Properties of score_relevance                                           *)
(***************************************************************************)
ProbeText == Lower(Blob(probe.title, probe.journal, probe.abstract))

ProbeSection == SectionsOf(probe.script)[probe.sec]

HasRedFlag == AnyIn(NON_PT_RED_FLAGS, ProbeText)

HasRequiredTerm == AnyIn(PT_REQUIRED_TERMS, ProbeText)

HasCategoryBan ==
    \E i \in 1..Len(ProbeSection.ban_terms) : Contains(Lower(ProbeSection.ban_terms[i]), ProbeText)

\* the number of terms of the list that occur in t
Matches(terms, t) == Cardinality({ i \in 1..Len(terms) : Contains(Lower(terms[i]), t) })

\* C5 as stated: a text with a global red flag or a ban term of the category
\* scores -999.
C5_BanAlwaysRejects ==
    (probe.script = "weekly" /\ (HasRedFlag \/ HasCategoryBan)) => probe.score = -999

\* C5: a text with a global red flag scores -999; a text with a ban term of
\* the category scores -999 when it has a required PT term and -200 when it
\* has none; neither ever scores above -200.
C5_BanRejectsOrNoSignal ==
    (probe.script = "weekly" /\ (HasRedFlag \/ HasCategoryBan)) =>
        probe.score = IF HasRedFlag \/ HasRequiredTerm THEN -999 ELSE -200

\* a text with a required PT term, must and boost matches and a preferred
\* journal is rejected for a ban term of the category alone
C5_Witness ==
    /\ probe.script = "weekly"
    /\ HasCategoryBan
    /\ ~HasRedFlag
    /\ HasRequiredTerm
    /\ Matches(ProbeSection.must_terms, ProbeText) > 0
    /\ Matches(ProbeSection.boost_terms, ProbeText) > 0
    /\ Matches(ProbeSection.preferred_journals, Lower(probe.journal)) > 0
    /\ probe.score = -999

\* C7: a text that passes the three checks scores 25 per matching preferred
\* journal, 8 per matching must term, 3 per matching boost term and 4 once for
\* a study-design term; a score is -999, -200 or not negative.
C7_ScoreFormula ==
    probe.script = "weekly" =>
        /\ (~HasRedFlag /\ HasRequiredTerm /\ ~HasCategoryBan) =>
              probe.score =   25 * Matches(ProbeSection.preferred_journals, Lower(probe.journal))
                            + 8 * Matches(ProbeSection.must_terms, ProbeText)
                            + 3 * Matches(ProbeSection.boost_terms, ProbeText)
                            + (IF AnyIn(STUDY_DESIGN_TERMS, ProbeText) THEN 4 ELSE 0)
        /\ probe.score \in {-999, -200} \/ probe.score >= 0

\* a text with two matching preferred journals, two must terms, two boost
\* terms and a study-design term
C7_Witness ==
    /\ probe.script = "weekly"
    /\ ~HasRedFlag /\ HasRequiredTerm /\ ~HasCategoryBan
    /\ Matches(ProbeSection.preferred_journals, Lower(probe.journal)) >= 2
    /\ Matches(ProbeSection.must_terms, ProbeText) >= 2
    /\ Matches(ProbeSection.boost_terms, ProbeText) >= 2
    /\ AnyIn(STUDY_DESIGN_TERMS, ProbeText)
    /\ probe.score >= 70

\* C8 as stated: adding a boost term of the category to a text never lowers
\* its score, in either script.
C8_BoostNeverLowers ==
    probe.added # "" => probe.score >= probe.prev

\* C8: adding a boost term of the category never lowers the score in the
\* monthly script; in the weekly script it lowers it in one case only, from
\* -200 to -999, when the text had no required PT term, has a ban term of the
\* category and the boost term contains a required PT term.
C8_BoostLowersOnlyIntoBan ==
    probe.added # "" =>
        \/ probe.score >= probe.prev
        \/ /\ probe.script = "weekly"
           /\ probe.prev = -200
           /\ probe.score = -999
           /\ AnyIn(PT_REQUIRED_TERMS, Lower(probe.added))
           /\ HasCategoryBan
           /\ ~HasRedFlag

\* a boost term that was not in the text raised a weekly score by 3
C8_Witness ==
    /\ probe.added # ""
    /\ probe.script = "weekly"
    /\ probe.prev >= 18
    /\ probe.score = probe.prev + 3

(***************************************************************************)
(* Failures and files of the weekly run                                    *)
(***************************************************************************)
\* the search of the category before k has just returned nothing
JustSearchedEmpty == pc \in {"search", "prev"} /\ k > 1 /\ ids = << >>

\* C11 as stated: a category whose search returned nothing gets a placeholder
\* of its own, not the "No strong match" card of a category whose candidates
\* stayed below the threshold.
C11_EmptyHasOwnPlaceholder ==
    JustSearchedEmpty =>
        Card(SECTIONS[k - 1], chosen[LastName], << >>).kind # "no_strong_match"

\* efetch_abstracts has answered for a category with XML that does not parse
MalformedAbstracts == ~xmlOk /\ candidate_pmids # << >>

\* C12 as stated: a request that fails in transport or returns a malformed
\* response aborts the run, the injection is not executed and the document
\* keeps its content.
C12_MalformedAlwaysAborts ==
    /\ failure = "request" => (pc = "aborted" /\ literature.fragment = PreviousFragment)
    /\ MalformedAbstracts => pc = "aborted"

\* C12: a request that raises (transport failure, JSON that does not parse)
\* aborts the run without retry, the injection is not executed and the
\* document keeps its content; an efetch answer whose XML does not parse does
\* not abort the run, which goes on with an empty abstract for every candidate.
C12_RaisingRequestAborts ==
    /\ failure = "request" => (pc = "aborted" /\ literature.fragment = PreviousFragment)
    /\ pc = "aborted" => ~ENABLED Next
    /\ ~xmlOk => \A name \in DOMAIN chosen : chosen[name].abstract = ""
    /\ (pc = "done" /\ ~xmlOk) => literature.fragment = cards

\* a request failed after an earlier category had got its winner from an
\* efetch answer that did not parse
C12_Witness ==
    /\ pc = "aborted"
    /\ failure = "request"
    /\ ~xmlOk
    /\ \E name \in DOMAIN chosen : chosen[name].score >= 18
    /\ literature.markers

\* C13: when the document has no marker pair the injection raises before any
\* write, and the document after the run is the document before the run.
C13_NoMarkersNoWrite ==
    /\ failure = "markers" => (pc = "aborted" /\ ~literature.markers)
    /\ ~literature.markers =>
          /\ literature.fragment = PreviousFragment
          /\ pc \notin {"save", "done"}

\* the run had cards with an article to inject and stopped at the missing
\* markers
C13_Witness ==
    /\ pc = "aborted"
    /\ failure = "markers"
    /\ \E i \in 1..Len(cards) : cards[i].kind = "article"
    /\ literature.fragment = PreviousFragment

\* what load_history does with a store that is missing or does not parse
LoadsEmpty ==
    (pc = "load" /\ (~historyFile.exists \/ ~historyFile.valid)) =>
        /\ pc' = "search"
        /\ loaded' = EmptyHistory
        /\ history' = EmptyHistory

\* the store of a finished run that started from empty lists
FreshStore ==
    (pc = "done" /\ loaded = EmptyHistory) =>
        /\ historyFile.exists
        /\ historyFile.valid
        /\ DOMAIN historyFile.data = SectionNames
        /\ \A name \in SectionNames :
              historyFile.data[name] =
                  IF chosen[name].pmid # "" /\ chosen[name].score >= 18
                  THEN << chosen[name].pmid >>
                  ELSE << >>

\* C14: with a store that is missing or does not parse, loading does not
\* fail and gives an empty list for every category, and a finished run writes
\* a store that holds exactly the winners of the run.
C14_BadStoreStartsEmpty == [][LoadsEmpty]_vars /\ []FreshStore

\* a run that found no store (it has not read the file and has written it
\* twice) has finished with a winner in one category and none in another
C14_Witness ==
    /\ pc = "done"
    /\ historyFile.reads = 0
    /\ loaded = EmptyHistory
    /\ \E a, b \in SectionNames :
         /\ historyFile.data[a] = << chosen[a].pmid >>
         /\ chosen[a].score >= 18
         /\ historyFile.data[b] = << >>

\* C15 as stated: the history file is read once at the start and written
\* once, at the end of the run, and at no other time.
C15_OneReadOneWrite ==
    /\ pc = "load" => (historyFile.reads = 0 /\ historyFile.writes = 0)
    /\ pc \notin {"load", "done"} => (historyFile.reads = 1 /\ historyFile.writes = 0)
    /\ pc = "done" => (historyFile.reads = 1 /\ historyFile.writes = 1)

\* C15: a file that exists is read once, at the start, and written once, by
\* the last statement of a finished run; a file that does not exist is not
\* read, is written with empty lists at the start and written again at the
\* end; the file is not written between the start and the end.
C15_ReadAtStartWriteAtEnd ==
    /\ pc = "load" => (historyFile.reads = 0 /\ historyFile.writes = 0)
    /\ pc \notin {"load", "done"} =>
          \/ historyFile.reads = 1 /\ historyFile.writes = 0
          \/ /\ historyFile.reads = 0
             /\ historyFile.writes = 1
             /\ historyFile.data = EmptyHistory
    /\ pc = "done" =>
          /\ historyFile.reads \in {0, 1}
          /\ historyFile.writes = 2 - historyFile.reads
          /\ historyFile.data = history

\* a run that read the store once has selected two winners and then written
\* the store once
C15_Witness ==
    /\ pc = "done"
    /\ historyFile.reads = 1
    /\ historyFile.writes = 1
    /\ \E a, b \in SectionNames :
         /\ a # b
         /\ chosen[a].score >= 18
         /\ chosen[b].score >= 18

(***************************************************************************)
(* Text helpers of the summary: str.strip, " ".join, normalize_space,       *)
(* re.split at the end of a sentence, the search for a result word         *)
(***************************************************************************)
Char(s, i) == SubSeq(s, i, i)

\* what \s matches in the texts of this model
IsSpace(c) == c \in {" ", "\n", "\t"}

\* what \w matches in a lowercased text
IsWordChar(c) ==
    c \in { "a", "b", "c", "d", "e", "f", "g", "h", "i", "j", "k", "l", "m", "n", "o", "p",
            "q", "r", "s", "t", "u", "v", "w", "x", "y", "z", "0", "1", "2", "3", "4", "5",
            "6", "7", "8", "9", "_" }

\* "".join(ss)
RECURSIVE Cat(_)
Cat(ss) ==
    IF Len(ss) = 0 THEN ""
    ELSE IF Len(ss) = 1 THEN ss[1]
    ELSE LET h == Len(ss) \div 2
         IN  Cat(SubSeq(ss, 1, h)) \o Cat(SubSeq(ss, h + 1, Len(ss)))

\* sep.join(ss)
Join(ss, sep) == Cat([ i \in 1..Len(ss) |-> IF i = 1 THEN ss[i] ELSE sep \o ss[i] ])

\* s.strip()
Strip(s) ==
    LET solid == { i \in 1..Len(s) : ~IsSpace(Char(s, i)) }
    IN  IF solid = {} THEN ""
        ELSE SubSeq(s, CHOOSE i \in solid : \A j \in solid : i <= j,
                       CHOOSE i \in solid : \A j \in solid : j <= i)

\* re.sub(r"\s+", " ", s).strip(): a run of white space inside the text becomes
\* one blank, a run at either end goes
normalize_space(s) ==
    Cat([ i \in 1..Len(s) |->
            IF ~IsSpace(Char(s, i)) THEN Char(s, i)
            ELSE IF /\ i > 1
                    /\ ~IsSpace(Char(s, i - 1))
                    /\ \E j \in (i + 1)..Len(s) : ~IsSpace(Char(s, j))
                 THEN " "
                 ELSE "" ])

\* the places where re.split(r"(?<=[.!?])\s+", txt) cuts a normalized text
Cuts(txt) ==
    { i \in 2..Len(txt) : IsSpace(Char(txt, i)) /\ Char(txt, i - 1) \in {".", "!", "?"} }

RECURSIVE SplitAt(_, _, _)
SplitAt(txt, from, cuts) ==
    IF cuts = {} THEN << SubSeq(txt, from, Len(txt)) >>
    ELSE LET c == CHOOSE i \in cuts : \A j \in cuts : i <= j
         IN  << SubSeq(txt, from, c - 1) >> \o SplitAt(txt, c + 1, cuts \ {c})

\* sents = [s.strip() for s in re.split(...) if s.strip()]
SplitSentences(txt) ==
    LET parts == SplitAt(txt, 1, Cuts(txt))
    IN  SelectSeq([ i \in 1..Len(parts) |-> Strip(parts[i]) ], LAMBDA x : x # "")

\* \bword\b somewhere in the lowercased text t
ContainsWord(word, t) ==
    \E i \in 1..(Len(t) - Len(word) + 1) :
        /\ SubSeq(t, i, i + Len(word) - 1) = word
        /\ i = 1 \/ ~IsWordChar(Char(t, i - 1))
        /\ i + Len(word) > Len(t) \/ ~IsWordChar(Char(t, i + Len(word)))

\* \bp\s*[<=>]\b somewhere in the lowercased text t
ContainsPCompare(t) ==
    \E i \in 1..Len(t) :
        /\ Char(t, i) = "p"
        /\ i = 1 \/ ~IsWordChar(Char(t, i - 1))
        /\ \E j \in (i + 1)..(Len(t) - 1) :
              /\ Char(t, j) \in {"<", "=", ">"}
              /\ \A m \in (i + 1)..(j - 1) : IsSpace(Char(t, m))
              /\ IsWordChar(Char(t, j + 1))

RESULT_WORDS ==
    << "significant", "improv", "increase", "reduce", "decrease", "effect", "difference",
       "associated", "odds", "risk", "ci" >>

\* re.search(r"\b(significant|...|CI|p\s*[<=>])\b", s, re.I)
HasResultWord(s) ==
    LET t == Lower(s)
    IN  \/ \E i \in 1..Len(RESULT_WORDS) : ContainsWord(RESULT_WORDS[i], t)
        \/ ContainsPCompare(t)

\* x[0].lower() + x[1:] if x else x
LowerFirst(x) == IF x = "" THEN x ELSE LowerCh(Char(x, 1)) \o SubSeq(x, 2, Len(x))

(***************************************************************************)
(* The abstracts of the summary: sentences, each with what re.finditer      *)
(* finds in it for the patterns of extract_stats and of extract_dosage      *)
(* (pat: index of the pattern in the list, at: place in the sentence, m:    *)
(* the matched text); no pattern matches across two sentences of the table  *)
(***************************************************************************)
SENTENCES ==
    "acl" :>
        [ text |-> "Athletes with ACL reconstruction and low back pain trained twice per week for 12 weeks.",
          stats |-> << [ pat |-> 6, at |-> 79, m |-> "12 weeks" ] >>,
          dosage |-> << [ pat |-> 4, at |-> 60, m |-> "twice per week" ], [ pat |-> 8, at |-> 79, m |-> "12 weeks" ] >> ] @@
    "koa" :>
        [ text |-> "Knee osteoarthritis pain fell by 20% (p<0.05) after 12 Weeks.",
          stats |-> << [ pat |-> 3, at |-> 39, m |-> "p<0.05" ], [ pat |-> 6, at |-> 53, m |-> "12 Weeks" ] >>,
          dosage |-> << [ pat |-> 8, at |-> 53, m |-> "12 Weeks" ] >> ] @@
    "lbp" :>
        [ text |-> "Low\nback  pain showed a significant effect.",
          stats |-> << >>,
          dosage |-> << >> ] @@
    "old" :>
        [ text |-> "Older adults with sarcopenia and hip fracture had more falls after total hip arthroplasty.",
          stats |-> << >>,
          dosage |-> << >> ] @@
    "ten" :>
        [ text |-> "Achilles tendinopathy was loaded with 3 sets of 10 reps.",
          stats |-> << >>,
          dosage |-> << [ pat |-> 9, at |-> 39, m |-> "3 sets of 10 reps" ], [ pat |-> 10, at |-> 39, m |-> "3 sets" ], [ pat |-> 11, at |-> 49, m |-> "10 reps" ] >> ] @@
    "fra" :>
        [ text |-> "Frailty was associated with slower gait, N = 11.",
          stats |-> << [ pat |-> 1, at |-> 42, m |-> "N = 11" ] >>,
          dosage |-> << >> ] @@
    "bal" :>
        [ text |-> "Balance training followed hip fracture surgery.",
          stats |-> << >>,
          dosage |-> << >> ] @@
    "str" :>
        [ text |-> "Stroke survivors walked farther.",
          stats |-> << >>,
          dosage |-> << >> ] @@
    "blank" :>
        [ text |-> " ",
          stats |-> << >>,
          dosage |-> << >> ] @@
    "OBJ" :>
        [ text |-> "OBJECTIVE: A.",
          stats |-> << >>,
          dosage |-> << >> ] @@
    "MET" :>
        [ text |-> "METHODS: B.",
          stats |-> << >>,
          dosage |-> << >> ] @@
    "RES" :>
        [ text |-> "RESULTS: C.",
          stats |-> << >>,
          dosage |-> << >> ] @@
    "CON" :>
        [ text |-> "CONCLUSION: D.",
          stats |-> << >>,
          dosage |-> << >> ] @@
    "res20" :>
        [ text |-> "RESULTS: Pain fell by 20% (p<0.05).",
          stats |-> << [ pat |-> 3, at |-> 28, m |-> "p<0.05" ] >>,
          dosage |-> << >> ] @@
    "resco" :>
        [ text |-> "RESULTS: Pain fell in both groups: more with exercise.",
          stats |-> << >>,
          dosage |-> << >> ] @@
    "cons" :>
        [ text |-> "Conclusions: Exercise helps.",
          stats |-> << >>,
          dosage |-> << >> ] @@
    "pur" :>
        [ text |-> "PURPOSE: To compare two programs.",
          stats |-> << >>,
          dosage |-> << >> ] @@
    "s01" :>
        [ text |-> "Site 1 trained 11 min with n = 11.",
          stats |-> << [ pat |-> 1, at |-> 28, m |-> "n = 11" ] >>,
          dosage |-> << [ pat |-> 6, at |-> 16, m |-> "11 min" ] >> ] @@
    "s02" :>
        [ text |-> "Site 2 trained 12 min with n = 12.",
          stats |-> << [ pat |-> 1, at |-> 28, m |-> "n = 12" ] >>,
          dosage |-> << [ pat |-> 6, at |-> 16, m |-> "12 min" ] >> ] @@
    "s03" :>
        [ text |-> "Site 3 trained 13 min with n = 13.",
          stats |-> << [ pat |-> 1, at |-> 28, m |-> "n = 13" ] >>,
          dosage |-> << [ pat |-> 6, at |-> 16, m |-> "13 min" ] >> ] @@
    "s04" :>
        [ text |-> "Site 4 trained 14 min with n = 14.",
          stats |-> << [ pat |-> 1, at |-> 28, m |-> "n = 14" ] >>,
          dosage |-> << [ pat |-> 6, at |-> 16, m |-> "14 min" ] >> ] @@
    "s05" :>
        [ text |-> "Site 5 trained 15 min with n = 15.",
          stats |-> << [ pat |-> 1, at |-> 28, m |-> "n = 15" ] >>,
          dosage |-> << [ pat |-> 6, at |-> 16, m |-> "15 min" ] >> ] @@
    "s06" :>
        [ text |-> "Site 6 trained 16 min with n = 16.",
          stats |-> << [ pat |-> 1, at |-> 28, m |-> "n = 16" ] >>,
          dosage |-> << [ pat |-> 6, at |-> 16, m |-> "16 min" ] >> ] @@
    "s07" :>
        [ text |-> "Site 7 trained 17 min with n = 17.",
          stats |-> << [ pat |-> 1, at |-> 28, m |-> "n = 17" ] >>,
          dosage |-> << [ pat |-> 6, at |-> 16, m |-> "17 min" ] >> ] @@
    "s08" :>
        [ text |-> "Site 8 trained 18 min with n = 18.",
          stats |-> << [ pat |-> 1, at |-> 28, m |-> "n = 18" ] >>,
          dosage |-> << [ pat |-> 6, at |-> 16, m |-> "18 min" ] >> ] @@
    "s09" :>
        [ text |-> "Site 9 trained 19 min with n = 19.",
          stats |-> << [ pat |-> 1, at |-> 28, m |-> "n = 19" ] >>,
          dosage |-> << [ pat |-> 6, at |-> 16, m |-> "19 min" ] >> ] @@
    "s10" :>
        [ text |-> "Site 10 trained 20 min with n = 20.",
          stats |-> << [ pat |-> 1, at |-> 29, m |-> "n = 20" ] >>,
          dosage |-> << [ pat |-> 6, at |-> 17, m |-> "20 min" ] >> ] @@
    "s11" :>
        [ text |-> "Site 11 trained 21 min with n = 21.",
          stats |-> << [ pat |-> 1, at |-> 29, m |-> "n = 21" ] >>,
          dosage |-> << [ pat |-> 6, at |-> 17, m |-> "21 min" ] >> ] @@
    "s12" :>
        [ text |-> "Site 12 trained 22 min with n = 22.",
          stats |-> << [ pat |-> 1, at |-> 29, m |-> "n = 22" ] >>,
          dosage |-> << [ pat |-> 6, at |-> 17, m |-> "22 min" ] >> ]

\* the abstract as efetch_abstracts returns it
AbstractText(abstract) == Join([ i \in 1..Len(abstract) |-> SENTENCES[abstract[i]].text ], " ")

\* the number of patterns of extract_stats and of extract_dosage
STATS_PATTERNS == 6

DOSAGE_PATTERNS == 16

\* out[:10]
MAX_HITS == 10

\* for m in re.finditer(pat, text): the matches of pattern pat, sentence by
\* sentence, each with the sentence it is in
FindIter(abstract, kind, pat) ==
    LET found(i) == SelectSeq(SENTENCES[abstract[i]][kind], LAMBDA h : h.pat = pat)
        RECURSIVE From(_)
        From(i) ==
            IF i > Len(abstract) THEN << >>
            ELSE [ n \in 1..Len(found(i)) |->
                     [ pat |-> pat, sentence |-> i, at |-> found(i)[n].at, m |-> found(i)[n].m ] ]
                 \o From(i + 1)
    IN  From(1)

\* for pat in patterns: for m in re.finditer(...): hits.append(m.group(0))
RECURSIVE Hits(_, _, _, _)
Hits(abstract, kind, pat, last) ==
    IF pat > last THEN << >>
    ELSE FindIter(abstract, kind, pat) \o Hits(abstract, kind, pat + 1, last)

\* DistinctStats with the key not lowercased
RECURSIVE DistinctStats_CaseSensitive(_, _, _, _)
DistinctStats_CaseSensitive(hits, i, seen, out) ==
    IF i > Len(hits) THEN out
    ELSE LET x == Strip(hits[i].m)
         IN  IF x # "" /\ x \notin seen
             THEN DistinctStats_CaseSensitive(hits, i + 1, seen \cup {x}, Append(out, x))
             ELSE DistinctStats_CaseSensitive(hits, i + 1, seen, out)

\* the loop over hits of extract_stats: x = x.strip(); if x and x.lower() not
\* in seen
RECURSIVE DistinctStats(_, _, _, _)
DistinctStats(hits, i, seen, out) ==
    IF i > Len(hits) THEN out
    ELSE LET x == Strip(hits[i].m)
             key == Lower(x)
         IN  IF x # "" /\ key \notin seen
             THEN DistinctStats(hits, i + 1, seen \cup {key}, Append(out, x))
             ELSE DistinctStats(hits, i + 1, seen, out)

\* the loop over hits of extract_dosage: if h.lower() in seen: continue
RECURSIVE DistinctDosage(_, _, _, _)
DistinctDosage(hits, i, seen, out) ==
    IF i > Len(hits) THEN out
    ELSE LET key == Lower(hits[i].m)
         IN  IF key \in seen
             THEN DistinctDosage(hits, i + 1, seen, out)
             ELSE DistinctDosage(hits, i + 1, seen \cup {key}, Append(out, hits[i].m))

extract_stats(abstract) ==
    IF AbstractText(abstract) = "" THEN ""
    ELSE Join(Take(DistinctStats(Hits(abstract, "stats", 1, STATS_PATTERNS), 1, {}, << >>),
                   MAX_HITS), ", ")

extract_dosage(abstract) ==
    IF AbstractText(abstract) = "" THEN ""
    ELSE Join(Take(DistinctDosage(Hits(abstract, "dosage", 1, DOSAGE_PATTERNS), 1, {}, << >>),
                   MAX_HITS), ", ")

(***************************************************************************)
(* _topic_hints and structured_summary                                     *)
(***************************************************************************)
\* mapping of _topic_hints; the label "parkinson's" has U+2019 in the source
TOPIC_MAPPING ==
    << [ label |-> "acl", keys |-> << "acl", "anterior cruciate" >> ],
       [ label |-> "tendinopathy",
         keys |-> << "tendinopathy", "achilles", "patellar tend", "patellar tendon" >> ],
       [ label |-> "running injury",
         keys |-> << "running injury", "running-related", "runner", "running" >> ],
       [ label |-> "low back pain", keys |-> << "low back pain", "lumbar", "spine" >> ],
       [ label |-> "shoulder", keys |-> << "shoulder", "rotator cuff", "subacromial" >> ],
       [ label |-> "knee oa", keys |-> << "knee osteoarthritis", "osteoarthritis" >> ],
       [ label |-> "post-op joint replacement",
         keys |-> << "total knee", "total hip", "arthroplasty", "postoperative", "post-op" >> ],
       [ label |-> "falls/balance", keys |-> << "falls", "fall risk", "balance" >> ],
       [ label |-> "sarcopenia/strength loss", keys |-> << "sarcopenia", "frailty" >> ],
       [ label |-> "hip fracture", keys |-> << "hip fracture" >> ],
       [ label |-> "stroke walking", keys |-> << "stroke", "poststroke" >> ],
       [ label |-> "parkinson's", keys |-> << "parkinson" >> ],
       [ label |-> "vestibular", keys |-> << "vestibular", "dizziness" >> ] >>

\* return hints[:3]
MAX_HINTS == 3

\* _topic_hints returning hints for hints[:3]
_topic_hints_All(text_lower) ==
    LET hits == SelectSeq(TOPIC_MAPPING,
                          LAMBDA e : \E n \in 1..Len(e.keys) : Contains(e.keys[n], text_lower))
    IN  [ i \in 1..Len(hits) |-> hits[i].label ]

_topic_hints(text_lower) ==
    LET hits == SelectSeq(TOPIC_MAPPING,
                          LAMBDA e : \E n \in 1..Len(e.keys) : Contains(e.keys[n], text_lower))
    IN  [ i \in 1..Min(MAX_HINTS, Len(hits)) |-> hits[i].label ]

\* label in hints
In(label, hints) == \E i \in 1..Len(hints) : hints[i] = label

NO_ABSTRACT_SUMMARY ==
    "No abstract was available for this article in the PubMed record."

NO_ABSTRACT_ELI5 ==
    "This study is about helping people move better, but we need the " \o
    "abstract to explain what they found."

NO_ABSTRACT_APPLY ==
    "If relevant to your caseload, review the full text and translate the " \o
    "intervention into measurable exercise dosing and outcomes."

ELI5_ACL ==
    "This study looked at people recovering from an ACL injury. It " \o
    "suggests that getting the leg strong and controlled helps the knee " \o
    "stay stable. That means the right exercises can help people return to " \o
    "sports more safely."

ELI5_KNEE_OA ==
    "This study looked at people with achy, stiff knees from arthritis. It " \o
    "suggests certain exercises can help the knee work better and hurt " \o
    "less. Moving and strengthening in the right way helps daily " \o
    "activities feel easier."

ELI5_LOW_BACK_PAIN ==
    "This study looked at people with back pain. It suggests certain " \o
    "movements or exercises can help the back feel better and move easier. " \o
    "Doing the right practice can help people get back to normal " \o
    "activities."

ELI5_FALLS ==
    "This study looked at helping older people stay steady and avoid " \o
    "falls. It suggests that stronger legs and better balance can keep " \o
    "people from tipping over. Practice can make walking and standing " \o
    "safer."

ELI5_NEURO ==
    "This study looked at people whose brain or balance system makes " \o
    "walking harder. It suggests that practicing the right walking or " \o
    "balance tasks helps the body learn again. More good practice can help " \o
    "people move more safely."

ELI5_GENERIC ==
    "This study tested a way to help people move better. It suggests the " \o
    "right kind of practice can improve strength or control. That can make " \o
    "everyday activities easier."

APPLY_ACL ==
    "Use this information to strengthen the knee extensors/hip musculature " \o
    "and retrain landing/cutting mechanics. Progress from controlled " \o
    "strength work to plyometrics and sport-specific drills using " \o
    "criteria-based benchmarks (strength symmetry, hop/landing quality, " \o
    "workload tolerance)."

APPLY_TENDINOPATHY ==
    "Translate this into progressive tendon loading (isometrics -> heavy " \o
    "slow resistance -> plyometrics as tolerated). Monitor symptoms with a " \o
    "24-hour response rule and gradually increase load/volume while " \o
    "maintaining movement quality."

APPLY_RUNNING ==
    "Apply this by combining graded return-to-run programming with " \o
    "strength work (calf/hip/knee as indicated) and load management. Use " \o
    "symptom-guided progression, modify weekly volume, and address " \o
    "mechanics only when they meaningfully relate to symptoms."

APPLY_KNEE_OA ==
    "Use progressive strengthening (quads/hips), functional training " \o
    "(sit-to-stand, stairs), and aerobic activity as tolerated. Track pain " \o
    "and function (e.g., LEFS/KOOS, sit-to-stand, gait speed), and " \o
    "progress load while keeping flare-ups manageable."

APPLY_SHOULDER ==
    "Incorporate rotator cuff/scapular strengthening and progressive " \o
    "exposure to reaching/lifting based on irritability. Prioritize " \o
    "movement tolerance and function (reaching, overhead work), and " \o
    "progress dosage while monitoring next-day response."

APPLY_LOW_BACK_PAIN ==
    "Use patient-specific activity loading: combine repeated movements or " \o
    "trunk/hip strengthening with functional lifting mechanics. Dose " \o
    "exercises to tolerance, emphasize confidence with movement, and use " \o
    "outcomes like ODI/PSFS plus functional tasks."

APPLY_POST_OP ==
    "Focus on progressive lower-extremity strengthening, gait training, " \o
    "and functional tasks (sit-to-stand, stairs) with safety first. " \o
    "Progress assistive device use and endurance while tracking gait " \o
    "speed, sit-to-stand, and balance as appropriate."

APPLY_FALLS ==
    "Use multicomponent fall-prevention programming: strength + balance + " \o
    "gait tasks, progressing from stable to dynamic environments and " \o
    "adding dual-task when safe. Reinforce home safety and " \o
    "confidence-building repetitions."

APPLY_STROKE ==
    "Emphasize task-specific gait practice at an appropriate challenge " \o
    "level (speed, distance, variability). Use cueing/feedback and " \o
    "progress intensity safely while monitoring fatigue and cardiovascular " \o
    "response."

APPLY_PARKINSON ==
    "Use external cueing (auditory/visual), amplitude-based training when " \o
    "appropriate, and gait/balance practice with progression. Measure " \o
    "change with gait speed, TUG, balance tests, and patient-reported " \o
    "function."

APPLY_VESTIBULAR ==
    "Apply vestibular principles by dosing gaze stabilization and " \o
    "habituation based on symptom tolerance, then progressing balance and " \o
    "walking tasks with head turns and environmental challenges."

APPLY_SEC_ORTHO ==
    "Translate the main intervention into progressive " \o
    "strengthening/mobility and functional task practice. Monitor the " \o
    "24-hour symptom response and advance load/volume to improve tolerance " \o
    "for daily activities."

APPLY_SEC_SPORTS ==
    "Integrate the intervention into a criteria-based sport progression: " \o
    "restore strength symmetry, neuromuscular control, and graded exposure " \o
    "to sport demands with objective testing where possible."

APPLY_SEC_GERI ==
    "Use progressive strengthening plus balance and gait training to " \o
    "improve independence and reduce fall risk. Tie progress to objective " \o
    "tests (gait speed, TUG, sit-to-stand) and real-life function."

APPLY_SEC_NEURO ==
    "Prioritize task-specific, high-repetition practice (walking, " \o
    "transfers, balance) with appropriate cueing and safety setup. " \o
    "Progress difficulty by adjusting speed, environment, and dual-task " \o
    "demands."

APPLY_SEC_OTHER ==
    "Translate the abstract findings into a measurable plan (dosage, " \o
    "frequency, progression) and track response using objective outcomes."

\* Eli5 with the branches in the order of the mapping of _topic_hints
Eli5_DetectionOrder(hints) ==
    IF In("acl", hints) THEN ELI5_ACL
    ELSE IF In("low back pain", hints) THEN ELI5_LOW_BACK_PAIN
    ELSE IF In("knee oa", hints) THEN ELI5_KNEE_OA
    ELSE IF In("falls/balance", hints) \/ In("hip fracture", hints) THEN ELI5_FALLS
    ELSE IF In("stroke walking", hints) \/ In("parkinson's", hints) \/ In("vestibular", hints)
         THEN ELI5_NEURO
    ELSE ELI5_GENERIC

\* the if / elif chain that picks eli5
Eli5(hints) ==
    IF In("acl", hints) THEN ELI5_ACL
    ELSE IF In("knee oa", hints) THEN ELI5_KNEE_OA
    ELSE IF In("low back pain", hints) THEN ELI5_LOW_BACK_PAIN
    ELSE IF In("falls/balance", hints) \/ In("hip fracture", hints) THEN ELI5_FALLS
    ELSE IF In("stroke walking", hints) \/ In("parkinson's", hints) \/ In("vestibular", hints)
         THEN ELI5_NEURO
    ELSE ELI5_GENERIC

\* << x >> when the condition holds
When(cond, x) == IF cond THEN << x >> ELSE << >>

\* HintLines with the falls advisory not held back by a hip fracture hint
HintLines_FallsAlways(hints) ==
       When(In("acl", hints), APPLY_ACL)
    \o When(In("tendinopathy", hints), APPLY_TENDINOPATHY)
    \o When(In("running injury", hints), APPLY_RUNNING)
    \o When(In("knee oa", hints), APPLY_KNEE_OA)
    \o When(In("shoulder", hints), APPLY_SHOULDER)
    \o When(In("low back pain", hints), APPLY_LOW_BACK_PAIN)
    \o When(In("post-op joint replacement", hints) \/ In("hip fracture", hints), APPLY_POST_OP)
    \o When(In("falls/balance", hints), APPLY_FALLS)
    \o When(In("stroke walking", hints), APPLY_STROKE)
    \o When(In("parkinson's", hints), APPLY_PARKINSON)
    \o When(In("vestibular", hints), APPLY_VESTIBULAR)

\* the advisories the hints append to apply_lines
HintLines(hints) ==
       When(In("acl", hints), APPLY_ACL)
    \o When(In("tendinopathy", hints), APPLY_TENDINOPATHY)
    \o When(In("running injury", hints), APPLY_RUNNING)
    \o When(In("knee oa", hints), APPLY_KNEE_OA)
    \o When(In("shoulder", hints), APPLY_SHOULDER)
    \o When(In("low back pain", hints), APPLY_LOW_BACK_PAIN)
    \o When(In("post-op joint replacement", hints) \/ In("hip fracture", hints), APPLY_POST_OP)
    \o When(In("falls/balance", hints) /\ ~In("hip fracture", hints), APPLY_FALLS)
    \o When(In("stroke walking", hints), APPLY_STROKE)
    \o When(In("parkinson's", hints), APPLY_PARKINSON)
    \o When(In("vestibular", hints), APPLY_VESTIBULAR)

\* the advisory of the section, taken when no hint appended one
SectionLine(section_name) ==
    LET sec == Lower(section_name)
    IN  IF Contains("orthoped", sec) THEN APPLY_SEC_ORTHO
        ELSE IF Contains("sports", sec) THEN APPLY_SEC_SPORTS
        ELSE IF Contains("geri", sec) THEN APPLY_SEC_GERI
        ELSE IF Contains("neuro", sec) THEN APPLY_SEC_NEURO
        ELSE APPLY_SEC_OTHER

\* apply_lines before " ".join
ApplyLines(hints, section_name, dosage) ==
    LET byHint == HintLines(hints)
    IN  (IF byHint = << >> THEN << SectionLine(section_name) >> ELSE byHint)
        \o When(dosage # "", "Study-reported dosage (from the abstract): " \o dosage \o ".")

\* purpose: the first two sentences
Purpose(txt) ==
    LET sents == SplitSentences(txt)
    IN  IF Len(sents) >= 2 THEN sents[1] \o " " \o sents[2]
        ELSE IF sents # << >> THEN sents[1] ELSE txt

\* main_results: the first two sentences with a result word, else the last
\* sentence
MainResults(txt) ==
    LET sents == SplitSentences(txt)
        result_sents == SelectSeq(sents, HasResultWord)
    IN  IF result_sents # << >> THEN Join(Take(result_sents, 2), " ")
        ELSE IF sents # << >> THEN sents[Len(sents)] ELSE txt

\* summary
Summary(txt, stats) ==
    LET purpose == Purpose(txt)
        main_results == MainResults(txt)
        summary == normalize_space("This article explored " \o LowerFirst(purpose) \o " "
                                   \o "Overall, the findings suggest " \o LowerFirst(main_results))
    IN  IF stats # ""
        THEN normalize_space(summary \o " Key numbers reported in the abstract include: "
                             \o stats \o ".")
        ELSE summary

\* structured_summary without the early return for an empty abstract
structured_summary_NoEarlyReturn(abstract, section_name) ==
    LET txt == normalize_space(AbstractText(abstract))
        hints == _topic_hints(Lower(txt))
    IN  [ summary |-> Summary(txt, extract_stats(abstract)),
          eli5 |-> Eli5(hints),
          apply |-> Join(ApplyLines(hints, section_name, extract_dosage(abstract)), " ") ]

structured_summary(abstract, section_name) ==
    IF AbstractText(abstract) = ""
    THEN [ summary |-> NO_ABSTRACT_SUMMARY, eli5 |-> NO_ABSTRACT_ELI5, apply |-> NO_ABSTRACT_APPLY ]
    ELSE LET txt == normalize_space(AbstractText(abstract))
             hints == _topic_hints(Lower(txt))
         IN  [ summary |-> Summary(txt, extract_stats(abstract)),
               eli5 |-> Eli5(hints),
               apply |-> Join(ApplyLines(hints, section_name, extract_dosage(abstract)), " ") ]

(***************************************************************************)
(* structured_summary and the extractors on their own: an abstract of       *)
(* sentences of the table, summarised for a section                        *)
(***************************************************************************)
MaxSentences == 2

\* the sentences a text is made of, and the text with one match more than
\* the extractors return
Appendable == { "acl", "koa", "lbp", "old", "ten", "fra", "bal", "str", "blank" }

LongAbstract ==
    [ i \in 1..(MAX_HITS + 1) |-> IF i < 10 THEN "s0" \o ToString(i) ELSE "s" \o ToString(i) ]

SectionArgs == { "Orthopedics", "Geriatrics", "" }

\* the record of one call of each function
Digest(abstract, section_name, n) ==
    LET hints == _topic_hints(Lower(normalize_space(AbstractText(abstract))))
        stats == extract_stats(abstract)
        dosage == extract_dosage(abstract)
    IN  [ section_name |-> section_name,
          abstract |-> abstract,
          n |-> n,
          out |-> structured_summary(abstract, section_name),
          hints |-> hints,
          lines |-> ApplyLines(hints, section_name, dosage),
          stats |-> stats,
          dosage |-> dosage ]

InitSummary ==
    /\ scores = ArticleScores
    /\ RunIdle
    /\ scan = IdleScan
    /\ probe = IdleProbe
    /\ \E a \in { << >>, LongAbstract }, s \in SectionArgs : digest = Digest(a, s, 0)

\* the abstract gets one more sentence and is summarised again
AppendSentence ==
    /\ digest.n = 0 \/ Len(digest.abstract) < MaxSentences
    /\ digest.n < MaxSentences
    /\ \E s \in Appendable :
         digest' = Digest(Append(digest.abstract, s), digest.section_name, digest.n + 1)
    /\ UNCHANGED << runVars, scan, probe >>

NextSummary == AppendSentence

SpecSummary == InitSummary /\ [][NextSummary]_vars

(***************************************************************************)
(* Properties of structured_summary and _topic_hints                       *)
(***************************************************************************)
\* the text structured_summary hands to _topic_hints
DigestText == Lower(normalize_space(AbstractText(digest.abstract)))

NonEmptyAbstract == AbstractText(digest.abstract) # ""

\* C16: with an empty abstract structured_summary returns the three fixed
\* "not available" strings, whatever the section, and nothing of the text or
\* of the section enters the result.
C16_EmptyAbstractFixedStrings ==
    (digest.section_name \in SectionArgs /\ ~NonEmptyAbstract) =>
        digest.out =
            [ summary |-> "No abstract was available for this article in the PubMed record.",
              eli5 |-> "This study is about helping people move better, but we need the "
                       \o "abstract to explain what they found.",
              apply |-> "If relevant to your caseload, review the full text and translate "
                        \o "the intervention into measurable exercise dosing and outcomes." ]

\* the empty abstract was summarised for a section that has an advisory of
\* its own
C16_Witness ==
    /\ digest.section_name = "Geriatrics"
    /\ digest.abstract = << >>
    /\ digest.out.apply = NO_ABSTRACT_APPLY

\* the entries of the mapping that have a key in the text t
MatchingIn(t) ==
    { i \in 1..Len(TOPIC_MAPPING) :
        \E n \in 1..Len(TOPIC_MAPPING[i].keys) : Contains(TOPIC_MAPPING[i].keys[n], t) }

\* C17: the hints are the labels of the first three entries of the mapping, in
\* the order of the mapping, that have a key in the lowercased text; no label
\* comes twice and a fourth matching label is dropped.
C17_FirstThreeHints ==
    NonEmptyAbstract =>
        LET Matching == MatchingIn(DigestText)
        IN  /\ Len(digest.hints) = Min(3, Cardinality(Matching))
            /\ \A n \in 1..Len(digest.hints) :
                  \E i \in Matching :
                     /\ digest.hints[n] = TOPIC_MAPPING[i].label
                     /\ Cardinality({ j \in Matching : j < i }) = n - 1
            /\ \A a, b \in 1..Len(digest.hints) : a # b => digest.hints[a] # digest.hints[b]

\* a text with four matching entries has the first three as hints
C17_Witness ==
    /\ NonEmptyAbstract
    /\ Cardinality(MatchingIn(DigestText)) = 4
    /\ digest.hints = << "post-op joint replacement", "falls/balance", "sarcopenia/strength loss" >>

\* the explanations that belong to a topic, in the order of the if / elif chain
ELI5_CHAIN ==
    << [ labels |-> { "acl" }, text |-> ELI5_ACL ],
       [ labels |-> { "knee oa" }, text |-> ELI5_KNEE_OA ],
       [ labels |-> { "low back pain" }, text |-> ELI5_LOW_BACK_PAIN ],
       [ labels |-> { "falls/balance", "hip fracture" }, text |-> ELI5_FALLS ],
       [ labels |-> { "stroke walking", "parkinson's", "vestibular" }, text |-> ELI5_NEURO ] >>

\* the explanation of one hint on its own
TemplateOf(label) ==
    IF \E g \in 1..Len(ELI5_CHAIN) : label \in ELI5_CHAIN[g].labels
    THEN ELI5_CHAIN[CHOOSE g \in 1..Len(ELI5_CHAIN) : label \in ELI5_CHAIN[g].labels].text
    ELSE ELI5_GENERIC

\* C18 as stated: the explanation is the topic template of the first hint,
\* and the generic one exactly when there is no hint.
C18_TemplateOfFirstHint ==
    NonEmptyAbstract =>
        /\ digest.hints # << >> => digest.out.eli5 = TemplateOf(digest.hints[1])
        /\ digest.out.eli5 = ELI5_GENERIC <=> digest.hints = << >>

\* C18: the explanation is the first template of the chain acl, knee oa, low
\* back pain, falls/balance or hip fracture, stroke or parkinson or vestibular
\* that has one of its labels among the hints, and the generic one exactly
\* when no hint has a template (no hint at all, or only hints of tendinopathy,
\* running injury, shoulder, joint replacement, sarcopenia).
C18_FirstTemplateOfChain ==
    NonEmptyAbstract =>
        LET with == { g \in 1..Len(ELI5_CHAIN) :
                        \E n \in 1..Len(digest.hints) : digest.hints[n] \in ELI5_CHAIN[g].labels }
        IN  IF with = {} THEN digest.out.eli5 = ELI5_GENERIC
            ELSE digest.out.eli5 = ELI5_CHAIN[CHOOSE g \in with : \A h \in with : g <= h].text

\* low back pain is detected ahead of knee oa and the explanation is the one
\* of knee oa
C18_Witness ==
    /\ digest.hints = << "low back pain", "knee oa" >>
    /\ digest.out.eli5 = ELI5_KNEE_OA

\* the advisory of each label that has one
ADVICE ==
    [ l \in { "acl", "tendinopathy", "running injury", "knee oa", "shoulder", "low back pain",
              "post-op joint replacement", "hip fracture", "falls/balance", "stroke walking",
              "parkinson's", "vestibular" } |->
        CASE l = "acl" -> APPLY_ACL
          [] l = "tendinopathy" -> APPLY_TENDINOPATHY
          [] l = "running injury" -> APPLY_RUNNING
          [] l = "knee oa" -> APPLY_KNEE_OA
          [] l = "shoulder" -> APPLY_SHOULDER
          [] l = "low back pain" -> APPLY_LOW_BACK_PAIN
          [] l = "post-op joint replacement" -> APPLY_POST_OP
          [] l = "hip fracture" -> APPLY_POST_OP
          [] l = "falls/balance" -> APPLY_FALLS
          [] l = "stroke walking" -> APPLY_STROKE
          [] l = "parkinson's" -> APPLY_PARKINSON
          [] l = "vestibular" -> APPLY_VESTIBULAR ]

SECTION_ADVICE ==
    { APPLY_SEC_ORTHO, APPLY_SEC_SPORTS, APPLY_SEC_GERI, APPLY_SEC_NEURO, APPLY_SEC_OTHER }

\* the lines of the guidance that are advisories of a topic, of a section
TopicLines == SelectSeq(digest.lines, LAMBDA x : x \in { ADVICE[l] : l \in DOMAIN ADVICE })

GenericLines == SelectSeq(digest.lines, LAMBDA x : x \in SECTION_ADVICE)

\* C19 as stated: the guidance has exactly one topic advisory per hint, the
\* advisory of the section appears exactly when there is no hint, and the
\* guidance is never empty.
C19_OneAdvisoryPerHint ==
    NonEmptyAbstract =>
        /\ Len(TopicLines) = Len(digest.hints)
        /\ \A n \in 1..Len(digest.hints) :
              digest.hints[n] \in DOMAIN ADVICE /\ ADVICE[digest.hints[n]] \in Range(TopicLines)
        /\ GenericLines # << >> <=> digest.hints = << >>
        /\ digest.out.apply # ""

\* C19: the guidance has, once each, the advisories of the hints that have
\* one: sarcopenia has none, joint replacement and hip fracture share one, and
\* the falls advisory is left out when hip fracture is a hint too; the
\* advisory of the section appears, once, exactly when no hint gave an
\* advisory; the guidance is never empty.
C19_AdvisoriesOfHints ==
    NonEmptyAbstract =>
        LET hs == Range(digest.hints)
            due == { ADVICE[l] : l \in { h \in hs \cap DOMAIN ADVICE :
                                           h = "falls/balance" => "hip fracture" \notin hs } }
        IN  /\ Range(TopicLines) = due
            /\ Len(TopicLines) = Cardinality(due)
            /\ Len(GenericLines) = IF due = {} THEN 1 ELSE 0
            /\ digest.out.apply = Join(digest.lines, " ")
            /\ digest.out.apply # ""

\* falls and hip fracture are both hints and the guidance has the one
\* advisory of hip fracture
C19_Witness ==
    /\ digest.hints = << "falls/balance", "hip fracture" >>
    /\ digest.lines = << APPLY_POST_OP >>
    /\ digest.out.apply = APPLY_POST_OP

(***************************************************************************)
(* Properties of extract_stats and extract_dosage                          *)
(***************************************************************************)
\* every match of every pattern in the text
AllMatches(kind) ==
    UNION { { [ pat |-> h.pat, sentence |-> i, at |-> h.at, m |-> h.m ] :
                h \in Range(SENTENCES[digest.abstract[i]][kind]) } :
            i \in 1..Len(digest.abstract) }

\* a is met before b when the text is read from its start
TextBefore(a, b) ==
    \/ a.sentence < b.sentence
    \/ a.sentence = b.sentence /\ a.at < b.at
    \/ a.sentence = b.sentence /\ a.at = b.at /\ a.pat < b.pat

\* a is met before b when the text is read once per pattern, pattern by pattern
PatternBefore(a, b) ==
    \/ a.pat < b.pat
    \/ a.pat = b.pat /\ a.sentence < b.sentence
    \/ a.pat = b.pat /\ a.sentence = b.sentence /\ a.at < b.at

InOrder(S, Before(_, _)) ==
    [ n \in 1..Cardinality(S) |-> CHOOSE x \in S : Cardinality({ y \in S : Before(y, x) }) = n - 1 ]

\* the first 10 of the matches that differ ignoring case, joined
Listed(hits) ==
    LET first == { i \in 1..Len(hits) :
                     \A j \in 1..(i - 1) : Lower(hits[j].m) # Lower(hits[i].m) }
        kept == [ n \in 1..Cardinality(first) |->
                    hits[CHOOSE i \in first : Cardinality({ j \in first : j < i }) = n - 1].m ]
    IN  Join(SubSeq(kept, 1, Min(10, Len(kept))), ", ")

\* C20 as stated: each extractor returns the first 10 matches that differ
\* ignoring case, in the order in which the text has them, and "" when
\* nothing matches.
C20_TextOrder ==
    digest.section_name \in SectionArgs =>
        /\ digest.stats = Listed(InOrder(AllMatches("stats"), TextBefore))
        /\ digest.dosage = Listed(InOrder(AllMatches("dosage"), TextBefore))

\* C20: each extractor returns the first 10 matches that differ ignoring case,
\* in the order in which it collects them: pattern by pattern in the order of
\* its pattern list and, for one pattern, in the order of the text; it returns
\* "" when nothing matches and the same result when called again.
C20_PatternOrder ==
    digest.section_name \in SectionArgs =>
        /\ digest.stats = Listed(InOrder(AllMatches("stats"), PatternBefore))
        /\ digest.dosage = Listed(InOrder(AllMatches("dosage"), PatternBefore))
        /\ AllMatches("stats") = {} => digest.stats = ""
        /\ AllMatches("dosage") = {} => digest.dosage = ""
        /\ digest.stats = extract_stats(digest.abstract)
        /\ digest.dosage = extract_dosage(digest.abstract)

\* a text with more than 10 different matches, the last of them left out, and
\* a match of a later sentence that equals an earlier one ignoring case
C20_Witness ==
    /\ Cardinality(AllMatches("stats")) > 10
    /\ \E a, b \in AllMatches("stats") : a.m # b.m /\ Lower(a.m) = Lower(b.m)
    /\ digest.stats = "n = 11, n = 12, n = 13, n = 14, n = 15, n = 16, n = 17, n = 18, n = 19, n = 20"

(***************************************************************************)
(* structured_summary of the monthly script: the labelled sections of an    *)
(* abstract (grab), the sentence heuristics when a section is missing       *)
(***************************************************************************)
MONTHLY_NO_ABSTRACT_BACKGROUND ==
    "No abstract was available in the PubMed record for this article."

MONTHLY_NO_ABSTRACT_RESULTS ==
    "Key outcomes were not available from the abstract."

MONTHLY_NO_ABSTRACT_CONCLUSION ==
    "Conclusion was not available from the abstract."

MONTHLY_NO_ABSTRACT_APPLY ==
    "If relevant to your setting and patient population, review the "
    \o "full text when possible and translate the intervention into a "
    \o "measurable plan (dose, frequency, progression) while tracking "
    \o "outcomes."

MONTHLY_APPLY ==
    "How to apply this (Physical Therapy): Confirm the population "
    \o "and setting match your caseload. If applicable, implement the "
    \o "main intervention principles (dose, intensity, frequency, "
    \o "progression) and track response with objective outcomes (pain "
    \o "scale, PSFS/ODI/LEFS/QuickDASH as appropriate, strength/ROM, "
    \o "gait speed, balance measures). Educate on expectations, monitor "
    \o "tolerance and safety, and individualize based on goals, "
    \o "comorbidities, and baseline function."

\* [A-Z] under re.IGNORECASE
IsLetter(c) ==
    LowerCh(c) \in { "a", "b", "c", "d", "e", "f", "g", "h", "i", "j", "k", "l", "m", "n",
                     "o", "p", "q", "r", "s", "t", "u", "v", "w", "x", "y", "z" }

\* [A-Z \-] under re.IGNORECASE
IsLabelChar(c) == IsLetter(c) \/ c \in {" ", "-"}

\* the last place at or before i that holds no white space (0 when none)
RECURSIVE SpaceRun(_, _)
SpaceRun(txt, i) ==
    IF i >= 1 /\ IsSpace(Char(txt, i)) THEN SpaceRun(txt, i - 1) ELSE i

\* the last place at or before i that holds no [A-Z \-] (0 when none)
RECURSIVE LabelRun(_, _)
LabelRun(txt, i) ==
    IF i >= 1 /\ IsLabelChar(Char(txt, i)) THEN LabelRun(txt, i - 1) ELSE i

\* the first place at or after i that holds no white space (Len + 1 when none)
RECURSIVE SkipSpace(_, _)
SkipSpace(txt, i) ==
    IF i <= Len(txt) /\ IsSpace(Char(txt, i)) THEN SkipSpace(txt, i + 1) ELSE i

Colons(txt) == { e \in 1..Len(txt) : Char(txt, e) = ":" }

\* the places s where [A-Z][A-Z \-]{2,}\s*: matches: a letter, then two or
\* more letters, blanks or hyphens, then white space up to a colon
LabelStarts(txt) ==
    UNION { LET w == SpaceRun(txt, e - 1)
            IN  { s \in (LabelRun(txt, w) + 1)..w :
                    /\ IsLetter(Char(txt, s))
                    /\ \/ w - s >= 2
                       \/ /\ s + 2 <= e - 1
                          /\ \A m \in (w + 1)..(s + 2) : Char(txt, m) = " " }
            : e \in Colons(txt) }

\* the places where the lookahead (?=\n?[A-Z][A-Z \-]{2,}\s*:|$) holds
SectionEnds(txt) ==
    LET starts == LabelStarts(txt)
    IN  starts \cup { s - 1 : s \in { x \in starts : x > 1 /\ Char(txt, x - 1) = "\n" } }
               \cup { Len(txt) + 1 }

\* grab(label): re.search(rf"{label}\s*:\s*(.*?)(?=...)", txt, re.I | re.S),
\* the group whitespace-normalised, "" when the label is not found
grab(txt, label) ==
    LET n == Len(label)
        found == { e \in Colons(txt) :
                     LET w == SpaceRun(txt, e - 1)
                     IN  w >= n /\ Lower(SubSeq(txt, w - n + 1, w)) = Lower(label) }
    IN  IF found = {} THEN ""
        ELSE LET e == CHOOSE x \in found :
                          \A y \in found : SpaceRun(txt, x - 1) <= SpaceRun(txt, y - 1)
                 from == SkipSpace(txt, e + 1)
                 ends == { j \in SectionEnds(txt) : j >= from }
                 to == CHOOSE j \in ends : \A i \in ends : j <= i
             IN  normalize_space(SubSeq(txt, from, to - 1))

\* a or b
Or(a, b) == IF a # "" THEN a ELSE b

MONTHLY_RESULT_WORDS ==
    << "result", "significant", "improv", "effect", "difference", "odds", "risk", "ci" >>

\* re.search(r"\b(result|...|CI|p\s*[<=>])\b", s, re.I)
HasResultWord_monthly(s) ==
    LET t == Lower(s)
    IN  \/ \E i \in 1..Len(MONTHLY_RESULT_WORDS) : ContainsWord(MONTHLY_RESULT_WORDS[i], t)
        \/ ContainsPCompare(t)

\* the three sections as grab finds them
Labelled(txt) ==
    [ background |-> Or(grab(txt, "BACKGROUND"), Or(grab(txt, "OBJECTIVE"), grab(txt, "PURPOSE"))),
      results |-> grab(txt, "RESULTS"),
      conclusion |-> Or(grab(txt, "CONCLUSION"), grab(txt, "CONCLUSIONS")) ]

\* fallback if not labeled: each section that is still empty is taken from
\* the sentences
Fallback_NoConclusion(txt, got) ==
    IF got.background # "" /\ got.results # "" /\ got.conclusion # "" THEN got
    ELSE
    LET sents == SplitSentences(normalize_space(txt))
        res_like == SelectSeq(sents, HasResultWord_monthly)
    IN  [ background |->
            IF got.background # "" THEN got.background
            ELSE IF Len(sents) >= 2 THEN sents[1] \o " " \o sents[2]
            ELSE IF sents # << >> THEN sents[1] ELSE normalize_space(txt),
          results |->
            IF got.results # "" THEN got.results
            ELSE IF res_like # << >> THEN Join(Take(res_like, 3), " ")
            ELSE IF Len(sents) > 3 THEN Join(Slice(sents, 2, 5), " ")
            ELSE normalize_space(txt),
          conclusion |-> got.conclusion ]

Fallback(txt, got) ==
    IF got.background # "" /\ got.results # "" /\ got.conclusion # "" THEN got
    ELSE
    LET sents == SplitSentences(normalize_space(txt))
        res_like == SelectSeq(sents, HasResultWord_monthly)
    IN  [ background |->
            IF got.background # "" THEN got.background
            ELSE IF Len(sents) >= 2 THEN sents[1] \o " " \o sents[2]
            ELSE IF sents # << >> THEN sents[1] ELSE normalize_space(txt),
          results |->
            IF got.results # "" THEN got.results
            ELSE IF res_like # << >> THEN Join(Take(res_like, 3), " ")
            ELSE IF Len(sents) > 3 THEN Join(Slice(sents, 2, 5), " ")
            ELSE normalize_space(txt),
          conclusion |->
            IF got.conclusion # "" THEN got.conclusion
            ELSE IF sents # << >> THEN sents[Len(sents)] ELSE normalize_space(txt) ]

\* the end of structured_summary: the statistics found in the abstract are
\* appended to the results, and the fixed application text is added
WithStats(seg, stats) ==
    [ background |-> seg.background,
      results |-> IF stats # ""
                  THEN normalize_space(seg.results)
                       \o " Key stats reported in the abstract: " \o stats \o "."
                  ELSE seg.results,
      conclusion |-> seg.conclusion,
      apply |-> MONTHLY_APPLY ]

structured_summary_monthly(abstract) ==
    IF AbstractText(abstract) = ""
    THEN [ background |-> MONTHLY_NO_ABSTRACT_BACKGROUND,
           results |-> MONTHLY_NO_ABSTRACT_RESULTS,
           conclusion |-> MONTHLY_NO_ABSTRACT_CONCLUSION,
           apply |-> MONTHLY_NO_ABSTRACT_APPLY ]
    ELSE WithStats(Fallback(Strip(AbstractText(abstract)),
                            Labelled(Strip(AbstractText(abstract)))),
                   extract_stats(abstract))

(***************************************************************************)
(* The summaries on their own, second part: an abstract as efetch_abstracts *)
(* joins it (labelled parts and plain sentences, never blank), segmented    *)
(* by the monthly script and opened by the weekly one                       *)
(***************************************************************************)
MaxPassages == 2

\* the parts an abstract is made of
Passages ==
    { "OBJ", "MET", "RES", "CON", "res20", "resco", "cons", "pur", "str", "lbp", "koa" }

LabelledAbstract == << "OBJ", "MET", "RES", "CON" >>

ProseAbstract == << "str", "old", "bal" >>

\* the record of one call of structured_summary of each script
Segments(abstract, n) ==
    LET txt == Strip(AbstractText(abstract))
    IN  [ abstract |-> abstract,
          n |-> n,
          out |-> structured_summary_monthly(abstract),
          grabbed |-> Labelled(txt),
          purpose |-> Purpose(normalize_space(txt)),
          main_results |-> MainResults(normalize_space(txt)) ]

InitSegment ==
    /\ scores = ArticleScores
    /\ RunIdle
    /\ scan = IdleScan
    /\ probe = IdleProbe
    /\ \E a \in { << >>, LabelledAbstract, ProseAbstract } : digest = Segments(a, 0)

\* the abstract gets one more part and is segmented again
AppendPassage ==
    /\ digest.n < MaxPassages
    /\ \E s \in Passages : digest' = Segments(Append(digest.abstract, s), digest.n + 1)
    /\ UNCHANGED << runVars, scan, probe >>

NextSegment == AppendPassage

SpecSegment == InitSegment /\ [][NextSegment]_vars

(***************************************************************************)
(* Properties of the segments                                              *)
(***************************************************************************)
\* the parts of the table that carry no label, and the labelled ones with
\* the segment the label stands for and the text that follows the label
PROSE == { "str", "lbp", "koa", "old", "bal" }

LABELLED ==
    "OBJ" :> [ segment |-> "background", body |-> "A." ] @@
    "MET" :> [ segment |-> "methods", body |-> "B." ] @@
    "RES" :> [ segment |-> "results", body |-> "C." ] @@
    "CON" :> [ segment |-> "conclusion", body |-> "D." ] @@
    "res20" :> [ segment |-> "results", body |-> "Pain fell by 20% (p<0.05)." ] @@
    "resco" :> [ segment |-> "results", body |-> "Pain fell in both groups: more with exercise." ] @@
    "cons" :> [ segment |-> "conclusion", body |-> "Exercise helps." ] @@
    "pur" :> [ segment |-> "background", body |-> "To compare two programs." ]

Segmented == digest.abstract # << >>

UnlabelledProse == Segmented /\ \A i \in 1..Len(digest.abstract) : digest.abstract[i] \in PROSE

\* C21: for every non-empty abstract, the segments the monthly script returns
\* are all non-empty, and the purpose and the main results the weekly script
\* builds its summary from are non-empty; in unlabelled prose no label is
\* found and the background and the conclusion come from the sentences: the
\* background starts the text, the conclusion ends it.
C21_FallbackNeverEmpty ==
    /\ Segmented =>
         /\ digest.out.background # "" /\ digest.out.results # "" /\ digest.out.conclusion # ""
         /\ digest.purpose # "" /\ digest.main_results # ""
    /\ UnlabelledProse =>
         LET txt == normalize_space(AbstractText(digest.abstract))
             b == digest.out.background
             c == digest.out.conclusion
         IN  /\ digest.grabbed = [ background |-> "", results |-> "", conclusion |-> "" ]
             /\ Len(b) <= Len(txt) /\ SubSeq(txt, 1, Len(b)) = b
             /\ Len(c) <= Len(txt) /\ SubSeq(txt, Len(txt) - Len(c) + 1, Len(txt)) = c

\* unlabelled prose of four sentences, none with a result word
C21_Witness ==
    /\ UnlabelledProse
    /\ Len(digest.abstract) = 4
    /\ digest.out.background = "Stroke survivors walked farther. "
           \o "Older adults with sarcopenia and hip fracture had more falls after total hip arthroplasty."
    /\ digest.out.conclusion = "Stroke survivors walked farther."

OnlyLabelled ==
    /\ Segmented
    /\ \A i \in 1..Len(digest.abstract) : digest.abstract[i] \in DOMAIN LABELLED
    /\ \A i, j \in 1..Len(digest.abstract) :
          LABELLED[digest.abstract[i]].segment = LABELLED[digest.abstract[j]].segment => i = j

\* C22: for an abstract made of labelled sections, one section per label,
\* each of objective (returned as background), methods, results and
\* conclusion comes back as exactly the text that follows its label.
C22_LabelledSectionsExact ==
    OnlyLabelled =>
        \A i \in 1..Len(digest.abstract) :
            LET p == LABELLED[digest.abstract[i]]
            IN  /\ p.segment \in DOMAIN digest.out
                /\ digest.out[p.segment] = p.body

(***************************************************************************)
(* Candidates, overlapping runs, aborted runs, repeated runs                *)
(***************************************************************************)
\* the places of the returned list whose identifier is not in the history the
\* run loaded for the category just handled
Outside == { i \in 1..Len(ids) : ids[i] \notin Range(loaded[LastName]) }

\* the n-th place of a set of places
Nth(S, n) == CHOOSE i \in S : Cardinality({ j \in S : j <= i }) = n

\* C23: the candidates scored for a category are, in the order of the
\* returned list, its first SCORE_TOP_N identifiers that are not in the
\* history (however far down the list they stand), or its first SCORE_TOP_N
\* identifiers when all of them are in the history; never more than
\* SCORE_TOP_N.
C23_FirstTopNOutsideHistory ==
    JustSelected =>
        /\ Len(candidate_pmids) <= SCORE_TOP_N
        /\ IF Outside # {}
           THEN /\ Len(candidate_pmids) = Min(Cardinality(Outside), SCORE_TOP_N)
                /\ \A n \in 1..Len(candidate_pmids) : candidate_pmids[n] = ids[Nth(Outside, n)]
           ELSE /\ Len(candidate_pmids) = Min(Len(ids), SCORE_TOP_N)
                /\ \A n \in 1..Len(candidate_pmids) : candidate_pmids[n] = ids[n]

\* a list of SCORE_TOP_N + 1 identifiers whose first is in the history: the
\* last one is scored, as the SCORE_TOP_N-th candidate
C23_Witness ==
    /\ JustSelected
    /\ Len(ids) = SCORE_TOP_N + 1
    /\ ids[1] \in Range(loaded[LastName])
    /\ Len(candidate_pmids) = SCORE_TOP_N
    /\ candidate_pmids[SCORE_TOP_N] = ids[SCORE_TOP_N + 1]

\* the categories for which the run recorded a winner, and the winner
Winners == { n \in DOMAIN chosen : Accepted(chosen[n]) }

\* what a run starting now would load
Persisted == load_history(historyFile)

\* C25 as stated: after an abort the persisted store contains none of the
\* winners of the run.
C25_AbortedStoreHoldsNoWinner ==
    pc = "aborted" => \A n \in Winners : chosen[n].pmid \notin Range(Persisted[n])

\* C25: the history is written only after the injection has returned: until
\* the run is done the persisted store is the one the run loaded (an
\* initially missing file being created with empty lists), so after an abort
\* it holds a winner of the run only if that identifier was already stored
\* before the run, and every other winner is still outside it.
C25_StoreAsLoadedUntilDone ==
    /\ pc \notin {"load", "done"} => Persisted = loaded
    /\ pc = "aborted" =>
          \A n \in Winners :
              chosen[n].pmid \in Range(Persisted[n]) <=> chosen[n].pmid \in Range(loaded[n])
    /\ (pc = "done" /\ literature.markers) => literature.fragment = cards /\ Persisted = history

\* the markers are missing after a category got a new winner
C25_Witness ==
    /\ pc = "aborted"
    /\ failure = "markers"
    /\ \E n \in Winners :
          /\ chosen[n].pmid \notin Range(loaded[n])
          /\ chosen[n].pmid \in Range(history[n])
          /\ chosen[n].pmid \notin Range(Persisted[n])

\* the cards that feature an article
ArticleCards == { c \in Range(cards) : c.kind = "article" }

MaxRuns == 3

\* the result lists the source gives on two days
Sources ==
    { [ Orthopedics |-> << "106", "103" >>,
        Sports |-> << "106" >>,
        Geriatrics |-> << "101", "106" >>,
        Neurological |-> << >> ],
      [ Orthopedics |-> << "101" >>,
        Sports |-> << "103", "106" >>,
        Geriatrics |-> << "104" >>,
        Neurological |-> << "101", "105" >> ] }

\* a run that has not started
FreshRun ==
    [ pc |-> "load", k |-> 1, history |-> EmptyHistory, loaded |-> EmptyHistory,
      chosen |-> << >>, ids |-> << >>, candidate_pmids |-> << >>,
      prev_pmids_by_section |-> << >>, cards |-> << >>, failure |-> "" ]

\* the variables of main() of the executing run
ThisRun ==
    [ pc |-> pc, k |-> k, history |-> history, loaded |-> loaded,
      chosen |-> chosen, ids |-> ids, candidate_pmids |-> candidate_pmids,
      prev_pmids_by_section |-> prev_pmids_by_section, cards |-> cards,
      failure |-> failure ]

\* main() starts with the variables of run
Resume(run) ==
    /\ pc' = run.pc
    /\ k' = run.k
    /\ history' = run.history
    /\ loaded' = run.loaded
    /\ chosen' = run.chosen
    /\ ids' = run.ids
    /\ candidate_pmids' = run.candidate_pmids
    /\ prev_pmids_by_section' = run.prev_pmids_by_section
    /\ cards' = run.cards
    /\ failure' = run.failure

\* the history file is empty or missing, the page has its markers
InitRuns ==
    /\ scores = ArticleScores
    /\ xmlOk \in BOOLEAN
    /\ historyFile \in { st \in Stores : load_history(st) = EmptyHistory /\ (st.exists => st.valid) }
    /\ literature = [ markers |-> TRUE, fragment |-> PreviousFragment ]
    /\ pc = "load"
    /\ k = 1
    /\ history = EmptyHistory
    /\ loaded = EmptyHistory
    /\ chosen = << >>
    /\ ids = << >>
    /\ candidate_pmids = << >>
    /\ prev_pmids_by_section = << >>
    /\ cards = << >>
    /\ failure = ""
    /\ scan = IdleScan
    /\ probe = IdleProbe
    /\ digest = IdleDigest
    /\ source \in Sources

\* ids = esearch(...) where the source returns source[name]
SearchSource == Search /\ ids' = source[SECTIONS[k].name]

\* the next scheduled run: main() is started again after the run before it
\* has ended
Restart ==
    /\ pc = "done"
    /\ runs < MaxRuns
    /\ runs' = runs + 1
    /\ Resume(FreshRun)
    /\ historyFile' = [ historyFile EXCEPT !.reads = 0, !.writes = 0 ]
    /\ UNCHANGED << literature, scores, xmlOk, scan, probe, digest, source, parked >>

InitRepeat == InitRuns /\ parked = NoRun /\ runs = 1

NextRepeat ==
    \/ Load
    \/ SearchSource
    \/ Select
    \/ PrevFeatured
    \/ Render
    \/ Inject
    \/ Save
    \/ Restart

SpecRepeat == InitRepeat /\ [][NextRepeat]_vars

\* the other run goes on: nothing orders the statements of two processes
Switch ==
    /\ parked.pc # "none"
    /\ parked' = ThisRun
    /\ Resume(parked)
    /\ UNCHANGED << historyFile, literature, scores, xmlOk, scan, probe, digest, source, runs >>

\* the source returns other lists from now on
Publish ==
    /\ source' \in Sources \ { source }
    /\ UNCHANGED << historyFile, literature, pc, k, history, loaded, chosen, ids,
                    candidate_pmids, prev_pmids_by_section, cards, failure, scores, xmlOk,
                    scan, probe, digest, parked, runs >>

InitOverlap == InitRuns /\ parked = FreshRun /\ runs = 2

NextOverlap ==
    \/ Load
    \/ SearchSource
    \/ Select
    \/ PrevFeatured
    \/ Render
    \/ Inject
    \/ Save
    \/ Switch
    \/ Publish

SpecOverlap == InitOverlap /\ [][NextOverlap]_vars

(***************************************************************************)
(* Properties of runs that overlap                                         *)
(***************************************************************************)
BothDone == pc = "done" /\ parked.pc = "done"

\* both runs loaded the same store: neither loaded what the other had saved
SameStart == loaded = parked.loaded

\* the list of a category after the loop of a run
Recorded(run, n) ==
    IF n \in DOMAIN run.chosen /\ Accepted(run.chosen[n])
    THEN Record(run.loaded[n], run.chosen[n].pmid)
    ELSE run.loaded[n]

\* the store is the dict of run last, and no winner of run other is in it
AllLost(last, other) ==
    /\ Persisted = last.history
    /\ \A n \in DOMAIN other.chosen :
          Accepted(other.chosen[n]) => other.chosen[n].pmid \notin Range(Persisted[n])

\* C24 as stated: after two runs that loaded the same store, the store is
\* the dict of one of them and the winners the other one recorded are
\* missing from it.
C24_OtherWinnerAlwaysLost ==
    (BothDone /\ SameStart) => AllLost(ThisRun, parked) \/ AllLost(parked, ThisRun)

\* every save (a step of the executing run from "save" to "done") replaces
\* the whole store by the dict of the saving run
SaveReplaces ==
    (pc = "save" /\ pc' = "done" /\ parked' = parked) => load_history(historyFile') = history

\* the store is what run last recorded on top of what it loaded; a winner of
\* run other is in it only if last recorded the same identifier (or loaded
\* it), and otherwise a later run that is offered it scores it again
LastWins(last, other) ==
    /\ Persisted = last.history
    /\ \A n \in SectionNames : Persisted[n] = Recorded(last, n)
    /\ \A n \in DOMAIN other.chosen :
          LET w == other.chosen[n].pmid
          IN  Accepted(other.chosen[n]) =>
                /\ w \in Range(Persisted[n]) <=>
                      \/ w \in Range(last.loaded[n])
                      \/ n \in DOMAIN last.chosen /\ Accepted(last.chosen[n])
                            /\ last.chosen[n].pmid = w
                /\ w \notin Range(Persisted[n]) =>
                      \A s \in Sources : w \in Range(s[n]) =>
                          w \in Range(Candidates(s[n], Persisted[n]))

OneRunWins == (BothDone /\ SameStart) => LastWins(ThisRun, parked) \/ LastWins(parked, ThisRun)

\* C24: nothing protects two overlapping runs from each other: every save
\* replaces the whole store by the dict of the saving run, so after two runs
\* that loaded the same store, the store is what the run that saved last
\* recorded; a winner of the other run is missing from it unless the last
\* run recorded the same identifier, and a missing one is scored again when
\* a later run is offered it.
C24_LastSaveWins == [][SaveReplaces]_vars /\ []OneRunWins

\* the two runs recorded different winners for a category; one is stored
C24_Witness ==
    /\ BothDone
    /\ SameStart
    /\ Accepted(chosen["Orthopedics"]) /\ Accepted(parked.chosen["Orthopedics"])
    /\ chosen["Orthopedics"].pmid # parked.chosen["Orthopedics"].pmid
    /\ Persisted["Orthopedics"] = << chosen["Orthopedics"].pmid >>
    /\ parked.history["Orthopedics"] = << parked.chosen["Orthopedics"].pmid >>

(***************************************************************************)
(* Properties of runs that follow each other                               *)
(***************************************************************************)
NoDuplicates(list) == \A i, j \in 1..Len(list) : list[i] = list[j] => i = j

Records(n) == pc = "select" /\ SECTIONS[k].name = n /\ history'[n] # history[n]

ScoreIn(n, p) ==
    LET i == CHOOSE x \in SectionIdx : SECTIONS[x].name = n
    IN  Scored("weekly", p, i, xmlOk).score

\* in store h, category n has returned identifiers outside the history, and
\* each of the first SCORE_TOP_N of them scores below the threshold
Stuck(h, n) ==
    LET outside == SelectSeq(source[n], LAMBDA p : p \notin Range(h[n]))
    IN  /\ outside # << >>
        /\ \A i \in 1..Min(Len(outside), SCORE_TOP_N) : ScoreIn(n, outside[i]) < ACCEPT

\* no step changes the list of a stuck category in the store
StuckStays ==
    \A n \in SectionNames :
        Stuck(Persisted, n) =>
            /\ load_history(historyFile')[n] = Persisted[n]
            /\ source' = source /\ xmlOk' = xmlOk /\ scores' = scores

\* a run that loaded a store in which category n is stuck selects nothing
\* for n, leaves its list alone and renders the placeholder
StuckShowsPlaceholder ==
    \A n \in SectionNames :
        (pc # "load" /\ Stuck(loaded, n)) =>
            /\ n \in DOMAIN chosen =>
                  /\ ~Accepted(chosen[n])
                  /\ chosen[n].pmid \notin Range(loaded[n])
                  /\ history[n] = loaded[n]
            /\ \A c \in Range(cards) :
                  ("name" \in DOMAIN c /\ c.name = n) => c.kind = "no_strong_match"
            /\ pc = "done" => Persisted[n] = loaded[n] /\ Stuck(Persisted, n)

\* C28: with the same returned lists and scores in every run, once the
\* identifiers of a category outside its stored history all score below 18
\* (and there is one), no later step changes the stored list of the
\* category, and every run that loads the store renders the placeholder for
\* it, whatever the identifiers in the history score.
C28_StuckForGood == [][StuckStays]_vars /\ []StuckShowsPlaceholder

\* the third run: 106 (score 61) is in the history of Orthopedics since the
\* first run, 103 (score 16) is returned again, the card is the placeholder
C28_Witness ==
    /\ runs = 3
    /\ pc = "done"
    /\ xmlOk
    /\ source["Orthopedics"] = << "106", "103" >>
    /\ loaded["Orthopedics"] = << "106" >>
    /\ Persisted["Orthopedics"] = << "106" >>
    /\ ScoreIn("Orthopedics", "106") >= ACCEPT
    /\ chosen["Orthopedics"].pmid = "103"
    /\ cards[3] = [ kind |-> "no_strong_match", name |-> "Orthopedics" ]
====
